---------------------------- MODULE Spec2Model ----------------------------
(***************************************************************************)
(* LinePeek: line counting, compact formatting, directory aggregation and *)
(* the decoration provider's caches, modelled from src/src/lineCounter.ts *)
(* and the extension source (src/unnamed/part_002, lines 118-812).        *)
(*                                                                         *)
(* Text is a sequence of one-character strings.  A file's bytes and its   *)
(* decoded characters coincide: only ASCII content is modelled.           *)
(***************************************************************************)
EXTENDS Integers, Sequences, FiniteSets, TLC

VARIABLES
    \* ---- countLines, one call (lineCounter.ts 29-87)
    clFile,      \* the file read: [content, exists]
    clPc,        \* "reading" | "stat" | "resolved" | "rejected"
    clPos,       \* bytes already delivered by 'data' events
    clCount,     \* let count
    clResult,    \* the value the promise resolved with
    \* ---- formatCompactNumber, one call (lineCounter.ts 268-276)
    fmtN,        \* the argument
    fmtPc,       \* "call" | "returned"
    fmtOut,      \* the returned string
    \* ---- countSloc, createDecoration or matchGlob, one call
    call,        \* [fn, pc, out] and the arguments of the call
    \* ---- the file system and the host's settings
    fs,          \* node -> [parent, name, kind, content, pad, mtime]
    hostConfig,  \* what vscode.workspace.getConfiguration('linepeek') returns
    \* ---- LineCountDecorationProvider (part_002 231-591)
    config,      \* the fields reloadConfig assigns
    cache,       \* this.cache: node -> [count, size, mtime]
    slocCache,   \* this.slocCache: node -> sloc
    perf,        \* [hits, misses]: this.cacheHits, this.cacheMisses
    req,         \* slot -> one provideFileDecoration call and where it is suspended
    \* ---- showWorkspaceStatistics (part_002 635-742)
    scan,        \* the one run of the command and where it is suspended
    \* ---- the environment's budget and the history the properties read
    env,         \* [ops, requests, scans, faults] still allowed
    hist,        \* [last, edit, inv, taken]: what happened, for the properties
    \* ---- activate: the debounce of text changes (part_002 199-216)
    live         \* [armed, doc, delay]: debounceTimer; the flag its handler read;
                 \* the documents changed and not invalidated since

clVars   == <<clFile, clPc, clPos, clCount, clResult>>
fmtVars  == <<fmtN, fmtPc, fmtOut>>
provVars == <<fs, hostConfig, config, cache, slocCache, perf, req, scan, env, hist>>
liveVars == <<live>>
callVars == <<call>>
pureVars == <<clVars, fmtVars, callVars>>
vars     == <<pureVars, provVars, liveVars>>
notCl    == <<fmtVars, callVars, provVars, liveVars>>
notFmt   == <<clVars, callVars, provVars, liveVars>>
notCall  == <<clVars, fmtVars, provVars, liveVars>>
notProv  == <<pureVars, liveVars>>

None == "none"

-----------------------------------------------------------------------------
(* Bounds *)

MaxLen      == 4      \* longest file content of the countLines runs
MaxChunk    == 2      \* largest 'data' chunk of the countLines runs
MaxFmtSmall == 160    \* formatCompactNumber is run on 0..MaxFmtSmall and FmtLarge
NumSlots    == 2      \* provideFileDecoration calls in flight at once
MaxOps      == 4      \* calls, edits, saves and setting changes of a run
MaxFaults   == 1      \* I/O calls of a run that fail
MaxSloc     == 4      \* longest file content of the countSloc runs
MaxBadge    == 12     \* createDecoration is run on the counts 0..MaxBadge and BadgeLarge
MaxGlob     == 3      \* longest pattern and longest path of the matchGlob runs
MaxSizeSmall == 40    \* formatFileSize is run on 0..MaxSizeSmall bytes and SizeEdges
MaxScale    == 5      \* and on 1..7 times 1024^e bytes, e <= MaxScale

-----------------------------------------------------------------------------
(* Characters and strings *)

LF == "\n"
CR == "\r"

SeqsUpTo(S, n) == UNION {[1..k -> S] : k \in 0..n}

RECURSIVE Digits(_)
\* Number.prototype.toString of an integer >= 0
Digits(n) ==
    LET d == <<"0", "1", "2", "3", "4", "5", "6", "7", "8", "9">>
    IN  IF n < 10 THEN <<d[n + 1]>> ELSE Digits(n \div 10) \o <<d[(n % 10) + 1]>>

Lower(c) ==
    CASE c = "A" -> "a" [] c = "B" -> "b" [] c = "D" -> "d" [] c = "J" -> "j"
      [] c = "M" -> "m" [] c = "P" -> "p" [] c = "S" -> "s" [] c = "Y" -> "y"
      [] OTHER -> c

\* String.prototype.toLowerCase
ToLowerCase(s) == [i \in 1..Len(s) |-> Lower(s[i])]

\* String.prototype.slice(from, to), 0-based, to exclusive
Slice(s, from, to) == SubSeq(s, from + 1, to)

\* String.prototype.startsWith
StartsWith(s, p) == Len(p) <= Len(s) /\ SubSeq(s, 1, Len(p)) = p

\* String.prototype.indexOf(p, from), 0-based, -1 when p does not occur
IndexOf(s, p, from) ==
    LET hits == {i \in from..(Len(s) - Len(p)) : SubSeq(s, i + 1, i + Len(p)) = p}
    IN  IF hits = {} THEN -1 ELSE CHOOSE i \in hits : \A j \in hits : i <= j

\* String.prototype.lastIndexOf(c) of one character, 0-based
LastIndexOf(s, c) ==
    LET hits == {i \in 0..(Len(s) - 1) : s[i + 1] = c}
    IN  IF hits = {} THEN -1 ELSE CHOOSE i \in hits : \A j \in hits : i >= j

IsSpace(c) == c \in {" ", "\t", LF, CR}

\* String.prototype.trim
Trim(s) ==
    LET keep == {i \in 1..Len(s) : ~IsSpace(s[i])}
    IN  IF keep = {} THEN <<>>
        ELSE SubSeq(s, CHOOSE i \in keep : \A j \in keep : i <= j,
                       CHOOSE i \in keep : \A j \in keep : i >= j)

RECURSIVE SplitLines(_)
\* String.prototype.split(/\r?\n/)
SplitLines(s) ==
    LET nl == IndexOf(s, <<LF>>, 0)
    IN  IF nl = -1 THEN <<s>>
        ELSE LET stop == IF nl > 0 /\ s[nl] = CR THEN nl - 1 ELSE nl
             IN  <<Slice(s, 0, stop)>> \o SplitLines(Slice(s, nl + 1, Len(s)))

\* filePath.split('.').pop()
LastDotSegment(p) == Slice(p, LastIndexOf(p, ".") + 1, Len(p))

-----------------------------------------------------------------------------
(* countLines (lineCounter.ts 29-87)                                       *)

NewlinesInOrCR(chunk) == Cardinality({i \in 1..Len(chunk) : chunk[i] \in {LF, CR}})
\* stream.on('data'): the number of bytes of the chunk equal to 10
NewlinesIn(chunk) == Cardinality({i \in 1..Len(chunk) : chunk[i] = LF})

\* stream.on('end'), count === 0: the answer after fs.stat
StatAnswer(err, size) == IF err THEN 0 ELSE IF size = 0 THEN 0 ELSE 1

EndAnswerOff(count) == count
\* stream.on('end'), count > 0: resolve(count + 1)
EndAnswer(count) == count + 1

\* The value a whole, undisturbed countLines call resolves with
CountLines(content) ==
    LET count == NewlinesIn(content)
    IN  IF count = 0 THEN StatAnswer(FALSE, Len(content)) ELSE EndAnswer(count)

ClBytes == {LF, CR, "x"}

ClInit ==
    /\ clFile \in [content : SeqsUpTo(ClBytes, MaxLen), exists : {TRUE}]
    /\ clPc = "reading"
    /\ clPos = 0
    /\ clCount = 0
    /\ clResult = None

\* One 'data' event with a chunk of k bytes
ClData(k) ==
    /\ clPc = "reading"
    /\ clPos + k <= Len(clFile.content)
    /\ clCount' = clCount + NewlinesIn(SubSeq(clFile.content, clPos + 1, clPos + k))
    /\ clPos' = clPos + k
    /\ UNCHANGED <<clFile, clPc, clResult, notCl>>

\* The 'end' event
ClEnd ==
    /\ clPc = "reading"
    /\ clPos = Len(clFile.content)
    /\ IF clCount = 0
         THEN clPc' = "stat" /\ clResult' = clResult
         ELSE clPc' = "resolved" /\ clResult' = EndAnswer(clCount)
    /\ UNCHANGED <<clFile, clPos, clCount, notCl>>

\* The fs.stat callback of the 'end' handler
ClStat ==
    /\ clPc = "stat"
    /\ clPc' = "resolved"
    /\ clResult' = StatAnswer(~clFile.exists, Len(clFile.content))
    /\ UNCHANGED <<clFile, clPos, clCount, notCl>>

\* The 'error' event: a read fault
ClError ==
    /\ clPc = "reading"
    /\ clPc' = "rejected"
    /\ UNCHANGED <<clFile, clPos, clCount, clResult, notCl>>

\* The environment removes the file while the open stream is still read
ClUnlink ==
    /\ clPc \in {"reading", "stat"}
    /\ clFile.exists
    /\ clFile' = [clFile EXCEPT !.exists = FALSE]
    /\ UNCHANGED <<clPc, clPos, clCount, clResult, notCl>>

ClNext ==
    \/ \E k \in 1..MaxChunk : ClData(k)
    \/ ClEnd
    \/ ClStat
    \/ ClError
    \/ ClUnlink

-----------------------------------------------------------------------------
(* countSloc and its comment patterns (lineCounter.ts 93-250)              *)

\* const langMap (lineCounter.ts 191-222), keyed by the extension
LangMap(ext) ==
    CASE ext \in {<<"j","s">>, <<"j","s","x">>} -> "javascript"
      [] ext \in {<<"t","s">>, <<"t","s","x">>} -> "typescript"
      [] ext = <<"p","y">> -> "python"
      [] ext = <<"j","a","v","a">> -> "java"
      [] ext \in {<<"c">>, <<"h">>} -> "c"
      [] ext \in {<<"c","p","p">>, <<"h","p","p">>} -> "cpp"
      [] ext = <<"c","s">> -> "csharp"
      [] ext = <<"r","b">> -> "ruby"
      [] ext = <<"g","o">> -> "go"
      [] ext = <<"r","s">> -> "rust"
      [] ext = <<"p","h","p">> -> "php"
      [] ext = <<"h","t","m","l">> -> "html"
      [] ext \in {<<"c","s","s">>, <<"s","c","s","s">>, <<"s","a","s","s">>,
                  <<"l","e","s","s">>} -> "css"
      [] ext = <<"j","s","o","n">> -> "json"
      [] ext \in {<<"y","a","m","l">>, <<"y","m","l">>} -> "yaml"
      [] ext = <<"x","m","l">> -> "xml"
      [] ext \in {<<"s","h">>, <<"b","a","s","h">>, <<"z","s","h">>} -> "shell"
      [] ext = <<"p","s","1">> -> "powershell"
      [] ext = <<"s","q","l">> -> "sql"
      [] ext = <<"m","d">> -> "markdown"
      [] OTHER -> None

CStyle(single) ==
    [single |-> single, blockStart |-> <<"/","*">>, blockEnd |-> <<"*","/">>]

\* const patterns (lineCounter.ts 226-249); a missing key is None
Patterns(language) ==
    CASE language \in {"javascript", "typescript", "java", "c", "cpp", "csharp",
                       "go", "rust"} -> CStyle(<< <<"/","/">> >>)
      [] language = "php" -> CStyle(<< <<"/","/">>, <<"#">> >>)
      [] language \in {"python", "ruby", "shell", "yaml"} ->
            [single |-> << <<"#">> >>, blockStart |-> None, blockEnd |-> None]
      [] language = "sql" ->
            [single |-> << <<"-","-">>, <<"/","/">>, <<"#">> >>,
             blockStart |-> None, blockEnd |-> None]
      [] language \in {"html", "xml"} ->
            [single |-> None, blockStart |-> <<"<","!","-","-">>,
             blockEnd |-> <<"-","-",">">>]
      [] language = "css" ->
            [single |-> None, blockStart |-> <<"/","*">>, blockEnd |-> <<"*","/">>]
      [] language \in {"markdown", "json"} ->
            [single |-> None, blockStart |-> None, blockEnd |-> None]
      [] language = "powershell" ->
            [single |-> << <<"#">> >>, blockStart |-> <<"<","#">>,
             blockEnd |-> <<"#",">">>]
      [] OTHER ->
            [single |-> << <<"/","/">>, <<"#">> >>, blockStart |-> None,
             blockEnd |-> None]

GetCommentPatternsSameCase(language, filePath) ==
    IF language = None THEN Patterns(LangMap(LastDotSegment(filePath))) ELSE Patterns(language)
\* getCommentPatternsForLanguage(language, filePath)
GetCommentPatternsForLanguage(language, filePath) ==
    IF language = None
    THEN Patterns(LangMap(ToLowerCase(LastDotSegment(filePath))))
    ELSE Patterns(language)

SingleVerdictStartFirst(trimmed, single, k) ==
    IF \E j \in 1..Len(single) : StartsWith(trimmed, single[j]) THEN "comment"
    ELSE IF \E j \in 1..Len(single) : IndexOf(trimmed, single[j], 0) > 0 THEN "code"
    ELSE "none"

RECURSIVE SingleVerdict(_, _, _)
\* The for loop over commentPatterns.single (lineCounter.ts 156-169):
\* "comment" (skip the line), "code" (sloc++, then skip) or "none"
SingleVerdict(trimmed, single, k) ==
    IF k > Len(single) THEN "none"
    ELSE IF StartsWith(trimmed, single[k]) THEN "comment"
    ELSE IF IndexOf(trimmed, single[k], 0) > 0 THEN "code"
    ELSE SingleVerdict(trimmed, single, k + 1)

SingleLineAddsTwice(trimmed, pat) ==
    IF pat.single = None THEN 1
    ELSE CASE SingleVerdict(trimmed, pat.single, 1) = "comment" -> 0
           [] SingleVerdict(trimmed, pat.single, 1) = "code" -> 2
           [] OTHER -> 1
\* The part of the loop body after the block-comment handling
\* (lineCounter.ts 153-175): what the line adds to sloc
SingleLineAdds(trimmed, pat) ==
    IF pat.single # None /\ SingleVerdict(trimmed, pat.single, 1) = "comment"
    THEN 0 ELSE 1

SlocLineNoBlock(trimmed, pat, inBlock) ==
    [add |-> SingleLineAdds(trimmed, pat), inBlock |-> inBlock]
\* One iteration of the loop over a non-blank line (lineCounter.ts 109-175):
\* what it adds to sloc and the inBlockComment it leaves
SlocLine(trimmed, pat, inBlock) ==
    IF pat.blockStart # None /\ pat.blockEnd # None
    THEN LET bs == IndexOf(trimmed, pat.blockStart, 0)
             be == IndexOf(trimmed, pat.blockEnd, 0)
             el == Len(pat.blockEnd)
         IN  IF inBlock
             THEN IF be # -1
                  THEN [add |-> IF Trim(Slice(trimmed, be + el, Len(trimmed))) # <<>>
                                THEN 1 ELSE 0,
                        inBlock |-> FALSE]
                  ELSE [add |-> 0, inBlock |-> TRUE]
             ELSE IF bs # -1
             THEN LET same   == IndexOf(trimmed, pat.blockEnd, bs + Len(pat.blockStart))
                      before == Trim(Slice(trimmed, 0, bs))
                  IN  IF same # -1
                      THEN [add |-> IF before # <<>>
                                       \/ Trim(Slice(trimmed, same + el, Len(trimmed))) # <<>>
                                    THEN 1 ELSE 0,
                            inBlock |-> FALSE]
                      ELSE [add |-> IF before # <<>> THEN 1 ELSE 0, inBlock |-> TRUE]
             ELSE [add |-> SingleLineAdds(trimmed, pat), inBlock |-> FALSE]
    ELSE [add |-> SingleLineAdds(trimmed, pat), inBlock |-> inBlock]

RECURSIVE SlocFrom(_, _, _, _)
SlocFrom(lines, k, pat, inBlock) ==
    IF k > Len(lines) THEN 0
    ELSE LET trimmed == Trim(lines[k])
         IN  IF trimmed = <<>> THEN SlocFrom(lines, k + 1, pat, inBlock)
             ELSE LET step == SlocLine(trimmed, pat, inBlock)
                  IN  step.add + SlocFrom(lines, k + 1, pat, step.inBlock)

\* countSloc(filePath, language) on a file holding content
CountSloc(content, filePath, language) ==
    SlocFrom(SplitLines(content), 1,
             GetCommentPatternsForLanguage(language, filePath), FALSE)

-----------------------------------------------------------------------------
(* globToRegex / matchGlob (part_002 791-812)                              *)

RECURSIVE GlobTokens(_)
\* The regular expression globToRegex builds, as a token sequence:
\* "gss" is (.*/)?, "gs" is (.*)?, "star" is [^/]*, "qm" is . and any
\* other character stands for itself (escaped where the regex needs it)
GlobTokens(p) ==
    IF p = <<>> THEN <<>>
    ELSE IF Len(p) >= 3 /\ SubSeq(p, 1, 3) = <<"*","*","/">>
         THEN <<[t |-> "gss"]>> \o GlobTokens(SubSeq(p, 4, Len(p)))
    ELSE IF Len(p) >= 2 /\ SubSeq(p, 1, 2) = <<"*","*">>
         THEN <<[t |-> "gs"]>> \o GlobTokens(SubSeq(p, 3, Len(p)))
    ELSE IF p[1] = "*" THEN <<[t |-> "star"]>> \o GlobTokens(Tail(p))
    ELSE IF p[1] = "?" THEN <<[t |-> "qm"]>> \o GlobTokens(Tail(p))
    ELSE <<[t |-> "lit", c |-> p[1]]>> \o GlobTokens(Tail(p))

DotAll(c) == TRUE
\* What the regex . matches: any character but a line terminator
Dot(c) == c \notin {LF, CR}

RECURSIVE RegexMatch(_, _, _, _)
\* new RegExp('^' + regex + '$', 'i').test(s), from token i and character j
RegexMatch(toks, i, s, j) ==
    IF i > Len(toks) THEN j > Len(s)
    ELSE LET tk == toks[i]
         IN  CASE tk.t = "lit" ->
                    /\ j <= Len(s)
                    /\ Lower(s[j]) = Lower(tk.c)
                    /\ RegexMatch(toks, i + 1, s, j + 1)
               [] tk.t = "qm" ->
                    /\ j <= Len(s)
                    /\ Dot(s[j])
                    /\ RegexMatch(toks, i + 1, s, j + 1)
               [] tk.t = "star" ->
                    \E e \in j..(Len(s) + 1) :
                        /\ \A x \in j..(e - 1) : s[x] # "/"
                        /\ RegexMatch(toks, i + 1, s, e)
               [] tk.t = "gs" ->
                    \E e \in j..(Len(s) + 1) :
                        /\ \A x \in j..(e - 1) : Dot(s[x])
                        /\ RegexMatch(toks, i + 1, s, e)
               [] tk.t = "gss" ->
                    \/ RegexMatch(toks, i + 1, s, j)
                    \/ \E e \in (j + 1)..(Len(s) + 1) :
                        /\ \A x \in j..(e - 2) : Dot(s[x])
                        /\ s[e - 1] = "/"
                        /\ RegexMatch(toks, i + 1, s, e)

MatchGlob(filePath, pattern) == RegexMatch(GlobTokens(pattern), 1, filePath, 1)

-----------------------------------------------------------------------------
(* Paths                                                                   *)

\* The only workspace folder
WsRoot == <<"/", "w">>

NodeModules == <<"n", "o", "d", "e", "_", "m", "o", "d", "u", "l", "e", "s">>

\* path.join(dirPath, name) for a directory entry's name
PathJoin(dirPath, name) == dirPath \o <<"/">> \o name

\* path.basename
BaseName(p) == Slice(p, LastIndexOf(p, "/") + 1, Len(p))

\* path.extname(p).slice(1): nothing for a name without a dot or whose only
\* dot starts it
ExtName(p) ==
    LET b == BaseName(p)
        d == LastIndexOf(b, ".")
    IN  IF d <= 0 THEN <<>> ELSE Slice(b, d + 1, Len(b))

\* vscode.workspace.asRelativePath: a path below the folder loses the
\* folder's prefix, any other path is returned as it is
AsRelativePath(p) ==
    IF StartsWith(p, WsRoot \o <<"/">>) THEN Slice(p, Len(WsRoot) + 1, Len(p)) ELSE p

-----------------------------------------------------------------------------
(* The file system                                                         *)
(* A node is [parent, name, kind, content, pad, mtime]; kind is "file",   *)
(* "dir", "other" (neither isFile nor isDirectory) or "absent".  A file's *)
(* bytes are content followed by pad bytes "x"; parent 0 is the file      *)
(* system's root.                                                          *)

FileSize(f) == Len(f.content) + f.pad

\* What a whole read of the file by countLines resolves with
FileCountLines(f) ==
    LET count == NewlinesIn(f.content)
    IN  IF count = 0 THEN StatAnswer(FALSE, FileSize(f)) ELSE EndAnswer(count)

\* What readFile hands to countSloc; a longer run of "x" at the end of the
\* last line classifies as a single "x" does
FileText(f) == IF f.pad = 0 THEN f.content ELSE f.content \o <<"x">>

RECURSIVE PathOf(_, _)
PathOf(tree, n) ==
    IF tree[n].parent = 0 THEN PathJoin(<<>>, tree[n].name)
    ELSE PathJoin(PathOf(tree, tree[n].parent), tree[n].name)

RECURSIVE SeqOfSet(_)
SeqOfSet(S) ==
    IF S = {} THEN <<>>
    ELSE LET m == CHOOSE x \in S : \A y \in S : x <= y
         IN  <<m>> \o SeqOfSet(S \ {m})

\* readdir(dirPath, { withFileTypes: true }): the entries, as nodes
ReadDir(tree, d) ==
    SeqOfSet({n \in DOMAIN tree : tree[n].parent = d /\ tree[n].kind # "absent"})

Range(q) == {q[i] : i \in 1..Len(q)}

EmptyMap == [x \in {} |-> 0]

MapSet(m, k, v) == [x \in (DOMAIN m) \cup {k} |-> IF x = k THEN v ELSE m[x]]

MapDelete(m, k) == [x \in (DOMAIN m) \ {k} |-> m[x]]

-----------------------------------------------------------------------------
(* reloadConfig (part_002 263-299)                                         *)

\* ext.toLowerCase().replace(/^\./, '')
NormalizeExt(e) ==
    LET l == ToLowerCase(e) IN IF l # <<>> /\ l[1] = "." THEN Tail(l) ELSE l

ReloadConfig(h) ==
    [isEnabled           |-> h.enable,
     ignoredExtensions   |-> {NormalizeExt(e) : e \in Range(h.ignoredFileExtensions)},
     ignoredPatterns     |-> h.ignoredPatterns,
     fileSizeLimitBytes  |-> h.fileSizeLimitMB * 1024 * 1024,
     displayMode         |-> h.displayMode,
     useCompactNumbers   |-> h.useCompactNumbers,
     colorThresholds     |-> h.colorThresholds,
     showSloc            |-> h.showSloc,
     showDirectoryTotals |-> h.showDirectoryTotals,
     liveUpdatesEnabled  |-> h.enableLiveUpdates,
     liveUpdateDelay     |-> h.liveUpdateDelayMs,
     showGitChanges      |-> h.showGitChanges,
     languageSettings    |-> h.languageSettings]

\* A colorThresholds key that is not there (undefined)
NoThresholds == [small |-> -1, medium |-> -1, large |-> -1]

\* A LanguageSettings object without a key: {}
NoLanguageSettings == [colorThresholds |-> NoThresholds, showSloc |-> FALSE]

\* getLanguageSettings (part_002 584-590)
GetLanguageSettings(cfg, filePath) ==
    LET ext == ToLowerCase(LastDotSegment(filePath))
    IN  IF ext = <<>> THEN NoLanguageSettings
        ELSE IF ext \in DOMAIN cfg.languageSettings THEN cfg.languageSettings[ext]
        ELSE NoLanguageSettings

\* matchesIgnoredPattern (part_002 563-576)
MatchesIgnoredPattern(cfg, filePath) ==
    \E i \in 1..Len(cfg.ignoredPatterns) :
        \/ MatchGlob(AsRelativePath(filePath), cfg.ignoredPatterns[i])
        \/ MatchGlob(filePath, cfg.ignoredPatterns[i])

-----------------------------------------------------------------------------
(* provideFileDecoration for a file (part_002 322-392, 440-526)            *)

NoStat == [ok |-> FALSE, isDir |-> FALSE, size |-> 0, mtime |-> 0]

Outcome(kind, count, size, sloc, isDir) ==
    [kind |-> kind, count |-> count, size |-> size, sloc |-> sloc, isDir |-> isDir]

NoResult  == Outcome("none", -1, -1, -1, FALSE)
Undefined == Outcome("undefined", -1, -1, -1, FALSE)
Thrown    == Outcome("thrown", -1, -1, -1, FALSE)

\* The { badge, tooltip, color } createDecoration returns, by what the
\* tooltip states: the count, the size and the SLOC (-1: no SLOC line)
Decoration(count, size, sloc, isDir) == Outcome("decoration", count, size, sloc, isDir)

IdleReq ==
    [pc |-> "idle", uri |-> 0, scheme |-> "file", stat |-> NoStat, io |-> TRUE,
     count |-> -1, sloc |-> -1, result |-> NoResult,
     \* calculateDirectoryLines: the entry awaited and the frames of the calls
     cur |-> 0, stack |-> <<>>,
     \* history: the files whose stat said the size is within the limit, the
     \* files a read was started on and the files added to the total, in order
     sized |-> {}, opened |-> <<>>, counted |-> <<>>,
     \* history: how the cache lookup went and the limit the size was compared
     \* with; whether the call is the first to start after an invalidation of
     \* its file, and what had happened since when it looked the cache up;
     \* whether it started after an edit and the edit's invalidation, with no
     \* edit since
     look |-> "none", limit |-> -1, next |-> FALSE, saw |-> "none", clean |-> FALSE,
     \* history: the values reloadConfig gave the provider's fields from the
     \* start of the call until it settled
     cfgs |-> {}]

Slots == 1..NumSlots

ProvideCatchOff(outcome) == outcome
\* try { ... } catch (error) { return undefined; } (part_002 345-364)
ProvideCatch(outcome) == IF outcome.kind = "thrown" THEN Undefined ELSE outcome

\* The promise provideFileDecoration returned settles
Finish(q, outcome) == [q EXCEPT !.pc = "done", !.result = ProvideCatch(outcome)]

CacheHitAnyMtime(c, key, mtime) == key \in DOMAIN c
\* cached && cached.mtime === stat.mtime (part_002 375-376)
CacheHit(c, key, mtime) == key \in DOMAIN c /\ c[key].mtime = mtime

OverLimitOff(size, limit) == FALSE
\* stat.size > this.fileSizeLimitBytes (part_002 357)
OverLimit(size, limit) == size > limit

\* createDecoration for a file, up to its await of a countSloc read
\* (part_002 440-487, 517-521)
CreateFileDecoration(q, cfg, sc, count) ==
    IF cfg.showSloc \/ GetLanguageSettings(cfg, PathOf(fs, q.uri)).showSloc
    THEN IF q.uri \in DOMAIN sc
         THEN Finish(q, Decoration(count, q.stat.size, sc[q.uri], FALSE))
         ELSE [q EXCEPT !.pc = "sloc", !.count = count]
    ELSE Finish(q, Decoration(count, q.stat.size, -1, FALSE))

NoOp == [op |-> "other", id |-> 0, had |-> FALSE]

Touch(h) == [h EXCEPT !.last = NoOp]

\* An I/O call fails only while the run's budget of failures lasts
MayFail(ok) == ok \/ env.faults > 0

Charge(ok) == IF ok THEN env ELSE [env EXCEPT !.faults = @ - 1]

PassesChecksOff(cfg, path, scheme) == TRUE
\* The checks provideFileDecoration makes before it calls stat: the enabled
\* flag, the scheme, the ignored patterns, the ignored extensions
\* (part_002 326-343)
PassesChecks(cfg, path, scheme) ==
    LET ext == ToLowerCase(LastDotSegment(path))
    IN  /\ cfg.isEnabled
        /\ scheme = "file"
        /\ ~MatchesIgnoredPattern(cfg, path)
        /\ ~(ext # <<>> /\ ext \in cfg.ignoredExtensions)

\* provideFileDecoration up to its await of stat (part_002 322-346)
Provide(r, n, scheme) ==
    /\ req[r].pc \in {"idle", "done"}
    /\ \A r2 \in Slots : r2 < r => req[r2].pc \notin {"idle", "done"}
    /\ env.ops > 0 /\ env.requests > 0
    /\ fs[n].kind \in {"file", "dir"}
    /\ LET pass == PassesChecks(config, PathOf(fs, n), scheme)
           next == pass /\ hist.inv[n] # "none" /\ ~hist.taken[n]
           q    == [IdleReq EXCEPT !.uri = n, !.scheme = scheme, !.next = next,
                                   !.clean = hist.edit[n] = "invalidated",
                                   !.cfgs = {config}]
       IN  /\ req' = [req EXCEPT ![r] = IF pass THEN [q EXCEPT !.pc = "stat"]
                                          ELSE Finish(q, Undefined)]
           /\ hist' = [Touch(hist) EXCEPT !.taken[n] = @ \/ next]
    /\ env' = [env EXCEPT !.ops = @ - 1, !.requests = @ - 1]
    /\ UNCHANGED <<fs, hostConfig, config, cache, slocCache, perf, scan, notProv>>

\* vscode.workspace.fs.stat reads the node
StatIO(r, ok) ==
    /\ MayFail(ok)
    /\ env' = Charge(ok)
    /\ req[r].pc = "stat"
    /\ LET f == fs[req[r].uri]
       IN  req' = [req EXCEPT ![r].pc = "statted",
                              ![r].stat = IF ok
                                          THEN [ok |-> TRUE, isDir |-> f.kind = "dir",
                                                size |-> IF f.kind = "dir" THEN 0
                                                         ELSE FileSize(f),
                                                mtime |-> f.mtime]
                                          ELSE NoStat]
    /\ hist' = Touch(hist)
    /\ UNCHANGED <<fs, hostConfig, config, cache, slocCache, perf, scan, notProv>>

\* The continuation of the stat await for a file: the size limit and
\* getFileDecoration up to its await of countLines (part_002 356-384)
StatResumeFile(r) ==
    /\ req[r].pc = "statted"
    /\ ~(req[r].stat.ok /\ req[r].stat.isDir)
    /\ LET q0  == req[r]
           n   == q0.uri
           q   == [q0 EXCEPT !.limit = config.fileSizeLimitBytes,
                             !.sized = IF q0.stat.ok /\ q0.stat.size <= config.fileSizeLimitBytes
                                       THEN {q0.uri} ELSE {}]
           hit == CacheHit(cache, n, q.stat.mtime)
           saw == IF q.next THEN hist.inv[n] ELSE "none"
       IN  IF ~q.stat.ok
           THEN /\ req' = [req EXCEPT ![r] = Finish(q0, Thrown)]
                /\ UNCHANGED perf
                /\ hist' = Touch(hist)
           ELSE IF OverLimit(q.stat.size, config.fileSizeLimitBytes)
           THEN /\ req' = [req EXCEPT ![r] = Finish(q, Undefined)]
                /\ UNCHANGED perf
                /\ hist' = Touch(hist)
           ELSE /\ IF hit
                   THEN /\ perf' = [perf EXCEPT !.hits = @ + 1]
                        /\ req' = [req EXCEPT ![r] =
                                CreateFileDecoration(
                                    [q EXCEPT !.look = "hit", !.saw = saw],
                                    config, slocCache, cache[n].count)]
                   ELSE /\ perf' = [perf EXCEPT !.misses = @ + 1]
                        /\ req' = [req EXCEPT ![r] =
                                [q EXCEPT !.pc = "count", !.saw = saw,
                                          !.look = IF n \in DOMAIN cache
                                                   THEN "stale" ELSE "absent"]]
                /\ hist' = Touch(hist)
    /\ UNCHANGED <<fs, hostConfig, config, cache, slocCache, env, scan, notProv>>

\* countLines reads the file (lineCounter.ts 45-81)
CountIO(r, ok) ==
    /\ MayFail(ok)
    /\ env' = Charge(ok)
    /\ req[r].pc = "count"
    /\ req' = [req EXCEPT ![r].pc = "counted", ![r].io = ok,
                          ![r].opened = Append(@, req[r].uri),
                          ![r].count = IF ok THEN FileCountLines(fs[req[r].uri])
                                       ELSE -1]
    /\ hist' = Touch(hist)
    /\ UNCHANGED <<fs, hostConfig, config, cache, slocCache, perf, scan, notProv>>

\* The continuation of the countLines await (part_002 385-391)
CountResume(r) ==
    /\ req[r].pc = "counted"
    /\ LET q == req[r]
           n == q.uri
       IN  IF ~q.io
           THEN /\ req' = [req EXCEPT ![r] = Finish(q, Thrown)]
                /\ UNCHANGED cache
                /\ hist' = Touch(hist)
           ELSE /\ cache' = MapSet(cache, n, [count |-> q.count, size |-> q.stat.size,
                                              mtime |-> q.stat.mtime])
                /\ req' = [req EXCEPT ![r] =
                                CreateFileDecoration(q, config, slocCache, q.count)]
                /\ hist' = [Touch(hist) EXCEPT !.inv[n] =
                                IF @ = "fresh" THEN "stored" ELSE @]
    /\ UNCHANGED <<fs, hostConfig, config, slocCache, perf, env, scan, notProv>>

\* countSloc reads the file (lineCounter.ts 94)
SlocIO(r, ok) ==
    /\ MayFail(ok)
    /\ env' = Charge(ok)
    /\ req[r].pc = "sloc"
    /\ LET n == req[r].uri
       IN  req' = [req EXCEPT ![r].pc = "slocRead", ![r].io = ok,
                              ![r].opened = Append(@, n),
                              ![r].sloc = IF ok
                                          THEN CountSloc(FileText(fs[n]), PathOf(fs, n), None)
                                          ELSE -1]
    /\ hist' = Touch(hist)
    /\ UNCHANGED <<fs, hostConfig, config, cache, slocCache, perf, scan, notProv>>

\* The continuation of the countSloc await in getSloc and the rest of
\* createDecoration (part_002 523-525, 486-514)
SlocResume(r) ==
    /\ req[r].pc = "slocRead"
    /\ LET q == req[r]
       IN  IF ~q.io
           THEN /\ req' = [req EXCEPT ![r] = Finish(q, Thrown)]
                /\ UNCHANGED slocCache
           ELSE /\ slocCache' = MapSet(slocCache, q.uri, q.sloc)
                /\ req' = [req EXCEPT ![r] =
                                Finish(q, Decoration(q.count, q.stat.size, q.sloc, FALSE))]
    /\ hist' = Touch(hist)
    /\ UNCHANGED <<fs, hostConfig, config, cache, perf, env, scan, notProv>>

-----------------------------------------------------------------------------
(* Directory totals (part_002 348-354, 394-438)                            *)

\* try { ... } catch { return undefined; } (part_002 397-402)
GetDirectoryCatch(outcome) == IF outcome.kind = "thrown" THEN Undefined ELSE outcome

SkippedDirNameOff(name) == FALSE
\* entry.name.startsWith('.') || entry.name === 'node_modules'
SkippedDirName(name) == StartsWith(name, <<".">>) \/ name = NodeModules

\* stats.size <= this.fileSizeLimitBytes (part_002 426)
SizeAllowed(size, limit) == size <= limit

Frame(d, entries) == [dir |-> d, entries |-> entries, idx |-> 1, total |-> 0]

\* The loop of calculateDirectoryLines from where it stands to its next await;
\* a call that returns adds its total in its caller, and the outermost call's
\* total goes to createDecoration (part_002 399, 409-437)
RECURSIVE RunDir(_, _, _)
RunDir(q, cfg, tree) ==
    LET d   == Len(q.stack)
        top == q.stack[d]
    IN  IF top.idx > Len(top.entries)
        THEN IF d = 1
             THEN Finish([q EXCEPT !.cur = 0],
                         GetDirectoryCatch(Decoration(top.total, 0, -1, TRUE)))
             ELSE RunDir([q EXCEPT !.stack = [SubSeq(q.stack, 1, d - 1)
                                                EXCEPT ![d - 1].total = @ + top.total]],
                         cfg, tree)
        ELSE LET e  == top.entries[top.idx]
                 p  == PathOf(tree, e)
                 q1 == [q EXCEPT !.stack[d].idx = @ + 1]
             IN  CASE tree[e].kind = "dir" ->
                        IF SkippedDirName(tree[e].name) \/ MatchesIgnoredPattern(cfg, p)
                        THEN RunDir(q1, cfg, tree)
                        ELSE [q1 EXCEPT !.pc = "readdir", !.cur = e]
                   [] tree[e].kind = "file" ->
                        IF /\ ToLowerCase(ExtName(p)) \notin cfg.ignoredExtensions
                           /\ ~MatchesIgnoredPattern(cfg, p)
                        THEN [q1 EXCEPT !.pc = "fstat", !.cur = e]
                        ELSE RunDir(q1, cfg, tree)
                   [] OTHER -> RunDir(q1, cfg, tree)

\* The continuation of the stat await for a directory (part_002 349-354)
StatResumeDir(r) ==
    /\ req[r].pc = "statted"
    /\ req[r].stat.ok /\ req[r].stat.isDir
    /\ LET q == req[r]
       IN  req' = [req EXCEPT ![r] = IF config.showDirectoryTotals
                                     THEN [q EXCEPT !.pc = "readdir", !.cur = q.uri]
                                     ELSE Finish(q, Undefined)]
    /\ hist' = Touch(hist)
    /\ UNCHANGED <<fs, hostConfig, config, cache, slocCache, perf, env, scan, notProv>>

\* readdir settles and the call that awaited it goes on (part_002 407)
DirList(r, ok) ==
    /\ req[r].pc = "readdir"
    /\ MayFail(ok)
    /\ env' = Charge(ok)
    /\ LET q == req[r]
       IN  req' = [req EXCEPT ![r] =
                IF ok
                THEN RunDir([q EXCEPT !.stack = Append(@, Frame(q.cur, ReadDir(fs, q.cur)))],
                            config, fs)
                ELSE Finish([q EXCEPT !.io = FALSE], GetDirectoryCatch(Thrown))]
    /\ hist' = Touch(hist)
    /\ UNCHANGED <<fs, hostConfig, config, cache, slocCache, perf, scan, notProv>>

\* statAsync of an entry settles (part_002 424-432)
DirFileStat(r, ok) ==
    /\ req[r].pc = "fstat"
    /\ MayFail(ok)
    /\ env' = Charge(ok)
    /\ LET q == req[r]
           f == fs[q.cur]
       IN  req' = [req EXCEPT ![r] =
                IF ok /\ SizeAllowed(FileSize(f), config.fileSizeLimitBytes)
                THEN [q EXCEPT !.pc = "fcount",
                               !.limit = config.fileSizeLimitBytes,
                               !.sized = IF FileSize(f) <= config.fileSizeLimitBytes
                                         THEN @ \cup {q.cur} ELSE @]
                ELSE RunDir(q, config, fs)]
    /\ hist' = Touch(hist)
    /\ UNCHANGED <<fs, hostConfig, config, cache, slocCache, perf, scan, notProv>>

\* countLines of an entry settles (part_002 427-432)
DirFileCount(r, ok) ==
    /\ req[r].pc = "fcount"
    /\ MayFail(ok)
    /\ env' = Charge(ok)
    /\ LET q  == [req[r] EXCEPT !.opened = Append(@, req[r].cur)]
           d  == Len(q.stack)
       IN  req' = [req EXCEPT ![r] =
                IF ok
                THEN RunDir([q EXCEPT !.stack[d].total = @ + FileCountLines(fs[q.cur]),
                                      !.counted = Append(@, q.cur)],
                            config, fs)
                ELSE RunDir(q, config, fs)]
    /\ hist' = Touch(hist)
    /\ UNCHANGED <<fs, hostConfig, config, cache, slocCache, perf, scan, notProv>>

-----------------------------------------------------------------------------
(* showWorkspaceStatistics and scanDirectory (part_002 635-789)            *)

IdleScan ==
    [pc |-> "idle", cfg |-> [fileSizeLimitBytes |-> 0, ignoredExtensions |-> {},
                             ignoredPatterns |-> <<>>],
     cur |-> 0, stack |-> <<>>, cancel |-> FALSE,
     totalFiles |-> 0, totalLines |-> 0, totalSize |-> 0, languageStats |-> EmptyMap,
     result |-> "none",
     \* history, as in a provideFileDecoration call
     sized |-> {}, opened |-> <<>>, counted |-> <<>>]

Root(tree) == CHOOSE n \in DOMAIN tree : tree[n].parent = 0

\* The settings the command reads when it starts (part_002 636-642)
ScanConfig(h) ==
    [fileSizeLimitBytes |-> h.fileSizeLimitMB * 1024 * 1024,
     ignoredExtensions  |-> Range(h.ignoredFileExtensions),
     ignoredPatterns    |-> h.ignoredPatterns]

\* shouldIgnore (part_002 693-700)
ShouldIgnore(cfg, filePath) ==
    \E i \in 1..Len(cfg.ignoredPatterns) : MatchGlob(filePath, cfg.ignoredPatterns[i])

Unknown == <<"u", "n", "k", "n", "o", "w", "n">>

OnFileTotalsOnly(s, filePath, lineCount, fileSize) ==
    IF s.cancel THEN s
    ELSE [s EXCEPT !.totalFiles = @ + 1, !.totalLines = @ + lineCount,
                   !.totalSize = @ + fileSize]
\* onFile (part_002 671-692)
OnFile(s, filePath, lineCount, fileSize) ==
    IF s.cancel THEN s
    ELSE LET popped == ToLowerCase(LastDotSegment(filePath))
             ext    == IF popped = <<>> THEN Unknown ELSE popped
             old    == IF ext \in DOMAIN s.languageStats THEN s.languageStats[ext]
                       ELSE [files |-> 0, lines |-> 0]
         IN  [s EXCEPT !.totalFiles = @ + 1,
                       !.totalLines = @ + lineCount,
                       !.totalSize  = @ + fileSize,
                       !.languageStats = MapSet(@, ext, [files |-> old.files + 1,
                                                         lines |-> old.lines + lineCount])]

\* The loop of scanDirectory from where it stands to its next await; when the
\* outermost call returns the folder loop ends and the command reports
\* (part_002 704-727, 756-788)
RECURSIVE RunScan(_, _)
RunScan(s, tree) ==
    LET d   == Len(s.stack)
        top == s.stack[d]
    IN  IF top.idx > Len(top.entries)
        THEN IF d = 1
             THEN [s EXCEPT !.pc = "done", !.cur = 0, !.stack = <<>>,
                            !.result = IF s.cancel THEN "cancelled" ELSE "shown"]
             ELSE RunScan([s EXCEPT !.stack = SubSeq(s.stack, 1, d - 1)], tree)
        ELSE LET e  == top.entries[top.idx]
                 p  == PathOf(tree, e)
                 s1 == [s EXCEPT !.stack[d].idx = @ + 1]
             IN  CASE tree[e].kind = "dir" ->
                        IF SkippedDirName(tree[e].name) \/ ShouldIgnore(s.cfg, p)
                        THEN RunScan(s1, tree)
                        ELSE [s1 EXCEPT !.pc = "readdir", !.cur = e]
                   [] tree[e].kind = "file" ->
                        IF \/ ToLowerCase(ExtName(p)) \in s.cfg.ignoredExtensions
                           \/ ShouldIgnore(s.cfg, p)
                        THEN RunScan(s1, tree)
                        ELSE [s1 EXCEPT !.pc = "fstat", !.cur = e]
                   [] OTHER -> RunScan(s1, tree)

\* The command starts: no folder open, or the scan of the folder begins
ScanStart(open) ==
    /\ scan.pc = "idle"
    /\ env.ops > 0 /\ env.scans > 0
    /\ env' = [env EXCEPT !.ops = @ - 1, !.scans = @ - 1]
    /\ scan' = IF open
               THEN [IdleScan EXCEPT !.pc = "readdir", !.cur = Root(fs),
                                     !.cfg = ScanConfig(hostConfig)]
               ELSE [IdleScan EXCEPT !.pc = "done", !.result = "nofolder",
                                     !.cfg = ScanConfig(hostConfig)]
    /\ hist' = Touch(hist)
    /\ UNCHANGED <<fs, hostConfig, config, cache, slocCache, perf, req, notProv>>

\* readdir settles; its failure is caught nowhere (part_002 754)
ScanList(ok) ==
    /\ scan.pc = "readdir"
    /\ MayFail(ok)
    /\ env' = Charge(ok)
    /\ scan' = IF ok
               THEN RunScan([scan EXCEPT !.stack = Append(@, Frame(scan.cur,
                                                                   ReadDir(fs, scan.cur)))],
                            fs)
               ELSE [scan EXCEPT !.pc = "done", !.result = "rejected"]
    /\ hist' = Touch(hist)
    /\ UNCHANGED <<fs, hostConfig, config, cache, slocCache, perf, req, notProv>>

\* statAsync of an entry settles (part_002 776-786)
ScanFileStat(ok) ==
    /\ scan.pc = "fstat"
    /\ MayFail(ok)
    /\ env' = Charge(ok)
    /\ LET size == FileSize(fs[scan.cur])
       IN  scan' = IF ok /\ ~OverLimit(size, scan.cfg.fileSizeLimitBytes)
                   THEN [scan EXCEPT !.pc = "fread",
                                     !.sized = IF size <= scan.cfg.fileSizeLimitBytes
                                               THEN @ \cup {scan.cur} ELSE @]
                   ELSE RunScan(scan, fs)
    /\ hist' = Touch(hist)
    /\ UNCHANGED <<fs, hostConfig, config, cache, slocCache, perf, req, notProv>>

\* getFileStats settles and onFile runs (part_002 782-786, lineCounter.ts 255-263)
ScanFileStats(ok) ==
    /\ scan.pc = "fread"
    /\ MayFail(ok)
    /\ env' = Charge(ok)
    /\ LET s == [scan EXCEPT !.opened = Append(@, scan.cur)]
           f == fs[scan.cur]
       IN  scan' = IF ok
                   THEN RunScan(OnFile([s EXCEPT !.counted = IF s.cancel THEN @
                                                             ELSE Append(@, s.cur)],
                                       PathOf(fs, s.cur), FileCountLines(f), FileSize(f)),
                                fs)
                   ELSE RunScan(s, fs)
    /\ hist' = Touch(hist)
    /\ UNCHANGED <<fs, hostConfig, config, cache, slocCache, perf, req, notProv>>

\* The user cancels the progress notification
ScanCancel ==
    /\ scan.pc \notin {"idle", "done"}
    /\ ~scan.cancel
    /\ scan' = [scan EXCEPT !.cancel = TRUE]
    /\ hist' = Touch(hist)
    /\ UNCHANGED <<fs, hostConfig, config, cache, slocCache, perf, req, env, notProv>>

-----------------------------------------------------------------------------
(* The events the extension subscribes to (part_002 183-198, 301-311)      *)

UpdateDecorationForUriOff(c, key) == c
\* updateDecorationForUri: the two delete calls
UpdateDecorationForUri(c, key) == MapDelete(c, key)

UpdateAllDecorationsOff(c) == c
\* updateAllDecorations: a clear call
UpdateAllDecorations(c) == EmptyMap

\* onDidSaveTextDocument
OnDidSaveTextDocument(n) ==
    /\ env.ops > 0
    /\ fs[n].kind = "file"
    /\ cache' = UpdateDecorationForUri(cache, n)
    /\ slocCache' = UpdateDecorationForUri(slocCache, n)
    /\ env' = [env EXCEPT !.ops = @ - 1]
    /\ hist' = [hist EXCEPT
                    !.last = [op |-> "invalidate", id |-> n,
                              had |-> n \in DOMAIN cache /\ n \in DOMAIN slocCache],
                    !.edit[n] = IF @ = "edited" THEN "invalidated" ELSE @,
                    !.inv[n] = "fresh",
                    !.taken[n] = FALSE]
    /\ live' = [live EXCEPT !.pending = @ \ {n}]
    /\ UNCHANGED <<fs, hostConfig, config, perf, req, scan, pureVars>>

\* onDidChangeConfiguration with e.affectsConfiguration('linepeek')
OnDidChangeConfiguration(h) ==
    /\ env.ops > 0
    /\ h # hostConfig
    /\ hostConfig' = h
    /\ config' = ReloadConfig(h)
    /\ cache' = UpdateAllDecorations(cache)
    /\ slocCache' = UpdateAllDecorations(slocCache)
    /\ env' = [env EXCEPT !.ops = @ - 1]
    /\ hist' = [hist EXCEPT !.last = [op |-> "reload", id |-> 0,
                                      had |-> cache # EmptyMap /\ slocCache # EmptyMap]]
    /\ live' = [live EXCEPT !.pending = {}]
    /\ req' = [r \in Slots |->
                IF req[r].pc \in {"idle", "done"} THEN req[r]
                ELSE [req[r] EXCEPT !.cfgs = @ \cup {ReloadConfig(h)}]]
    /\ UNCHANGED <<fs, perf, scan, pureVars>>

\* The file changes on disk: new bytes and a later modification time
Edit(n, c) ==
    /\ env.ops > 0
    /\ fs[n].kind = "file"
    /\ c # fs[n].content
    /\ fs' = [fs EXCEPT ![n].content = c, ![n].mtime = @ + 1]
    /\ env' = [env EXCEPT !.ops = @ - 1]
    /\ req' = [r \in Slots |-> IF req[r].uri = n THEN [req[r] EXCEPT !.clean = FALSE]
                               ELSE req[r]]
    /\ hist' = [Touch(hist) EXCEPT !.edit[n] = "edited"]
    /\ UNCHANGED <<hostConfig, config, cache, slocCache, perf, scan, notProv>>

\* onDidChangeTextDocument: the one timer of the extension is cleared and set
\* again for the document of this event.  A text change is a change of the
\* editor's buffer: the file on disk stays as it is
OnDidChangeTextDocument(n) ==
    /\ env.ops > 0
    /\ fs[n].kind = "file"
    /\ env' = [env EXCEPT !.ops = @ - 1]
    /\ live' = IF ~config.liveUpdatesEnabled
               THEN live
               ELSE [live EXCEPT !.armed = TRUE, !.doc = n,
                                 !.delay = config.liveUpdateDelay,
                                 !.enabled = config.liveUpdatesEnabled,
                                 !.pending = @ \cup {n}]
    /\ hist' = Touch(hist)
    /\ UNCHANGED <<fs, hostConfig, config, cache, slocCache, perf, req, scan,
                   pureVars>>

\* The timer's callback, live.delay after the last setTimeout:
\* updateDecorationForUri(e.document.uri) of the event that set it
DebounceFire ==
    /\ live.armed
    /\ LET n == live.doc
       IN  /\ cache' = UpdateDecorationForUri(cache, n)
           /\ slocCache' = UpdateDecorationForUri(slocCache, n)
           /\ live' = [live EXCEPT !.armed = FALSE, !.pending = @ \ {n}]
           /\ hist' = [hist EXCEPT
                    !.last = [op |-> "invalidate", id |-> n,
                              had |-> n \in DOMAIN cache /\ n \in DOMAIN slocCache],
                    !.edit[n] = IF @ = "edited" THEN "invalidated" ELSE @,
                    !.inv[n] = "fresh",
                    !.taken[n] = FALSE]
    /\ UNCHANGED <<fs, hostConfig, config, perf, req, scan, env, pureVars>>

-----------------------------------------------------------------------------
(* formatCompactNumber (lineCounter.ts 268-276)                            *)

\* The values n of (x).toFixed(1), as tenths, for x = num / unit.  toFixed
\* rounds the double x to the nearest tenth and a tie upward.  num / unit is
\* exactly a tie only when it is a double (a multiple of 1/4); any other
\* decimal tie is a double slightly above or below it, which the model
\* leaves open.
ToFixed1Tenths(num, unit) ==
    LET step == unit \div 10
        q    == num \div step
        r    == num % step
    IN  IF 2 * r < step THEN {q}
        ELSE IF 2 * r > step THEN {q + 1}
        ELSE IF (4 * num) % unit = 0 THEN {q + 1}
        ELSE {q, q + 1}

\* toFixed(1).replace(/\.0$/, '')
FixedString(tenths) ==
    IF tenths % 10 = 0 THEN Digits(tenths \div 10)
    ELSE Digits(tenths \div 10) \o <<".">> \o Digits(tenths % 10)

FormatCompactNumber(num) ==
    IF num < 1000 THEN {Digits(num)}
    ELSE IF num < 1000000
         THEN {FixedString(t) \o <<"k">> : t \in ToFixed1Tenths(num, 1000)}
         ELSE {FixedString(t) \o <<"M">> : t \in ToFixed1Tenths(num, 1000000)}

FmtLarge == {949, 950, 999, 1000, 1050, 1234, 1250, 1499, 1500, 9499, 9500,
             10000, 999949, 1000000, 1500000}

FmtInit ==
    /\ fmtN \in (0..MaxFmtSmall) \cup FmtLarge
    /\ fmtPc = "call"
    /\ fmtOut = <<>>

FmtCall ==
    /\ fmtPc = "call"
    /\ fmtOut' \in FormatCompactNumber(fmtN)
    /\ fmtPc' = "returned"
    /\ UNCHANGED <<fmtN, notFmt>>

FmtNext == FmtCall

-----------------------------------------------------------------------------
(* formatFileSize (lineCounter.ts 281-289) and the badge and the color of  *)
(* createDecoration (part_002 440-515)                                     *)

\* const sizes
SizeUnits == << <<"B">>, <<"K", "B">>, <<"M", "B">>, <<"G", "B">>, <<"T", "B">> >>

RECURSIVE SizeExp(_)
\* Math.floor(Math.log(bytes) / Math.log(k)) for bytes >= 1: the quotient of
\* the two logarithms is exact at the powers of 1024 of the runs (1024^1 to
\* 1024^5: Math.log(2^k) is k * ln2_hi + k * ln2_lo)
SizeExp(bytes) == IF bytes < 1024 THEN 0 ELSE 1 + SizeExp(bytes \div 1024)

RECURSIVE Pow1024(_)
Pow1024(i) == IF i = 0 THEN 1 ELSE 1024 * Pow1024(i - 1)

\* parseFloat((bytes / Math.pow(k, i)).toFixed(1)) as a string: the quotient
\* by a power of two is exact, toFixed rounds it to tenths, a tie upward, and
\* parseFloat drops a fraction of zero
SizeNumber(bytes) ==
    LET unit == Pow1024(SizeExp(bytes))
    IN  FixedString((20 * bytes + unit) \div (2 * unit))

\* sizes[i] joined to a string: 'undefined' past the end of the array
SizeUnitAt(i) ==
    IF i + 1 \in DOMAIN SizeUnits THEN SizeUnits[i + 1]
    ELSE <<"u", "n", "d", "e", "f", "i", "n", "e", "d">>

\* formatFileSize(n * 1024^e): Math.log(bytes) / Math.log(k) rises by e and
\* bytes / Math.pow(k, i) is n / 1024^SizeExp(n)
FormatFileSizeTimes(n, e) ==
    IF n = 0 THEN <<"0", " ", "B">>
    ELSE SizeNumber(n) \o <<" ">> \o SizeUnitAt(SizeExp(n) + e)

FormatFileSize(bytes) == FormatFileSizeTimes(bytes, 0)

\* String.prototype.split(' ')[0]
FirstWord(s) == LET i == IndexOf(s, <<" ">>, 0) IN IF i = -1 THEN s ELSE Slice(s, 0, i)

\* String.prototype.substring(0, n)
Substring0(s, n) == SubSeq(s, 1, IF n < Len(s) THEN n ELSE Len(s))

\* String.prototype.endsWith
EndsWith(s, c) == s # <<>> /\ s[Len(s)] = c

\* The character U+2211 the directory badges start with
AggregateMarker == "SUM"

\* let badge (part_002 450-474); formatCompactNumber may have two roundings
CreateDecorationBadge(count, fileSize, isDirectory, cfg) ==
    IF isDirectory
    THEN {IF count < 10 THEN <<AggregateMarker>> \o Digits(count)
          ELSE IF EndsWith(compact, "H") THEN <<AggregateMarker, "H">>
          ELSE IF EndsWith(compact, "k") \/ EndsWith(compact, "+")
               THEN <<AggregateMarker, "k">>
          ELSE <<AggregateMarker, "+">> : compact \in FormatCompactNumber(count)}
    ELSE IF cfg.displayMode = "size"
    THEN {Substring0(FirstWord(FormatFileSize(fileSize)), 2)}
    ELSE IF cfg.useCompactNumbers \/ Len(Digits(count)) > 2
         THEN FormatCompactNumber(count)
         ELSE {Digits(count)}

ThresholdsGlobalOnly(cfg, filePath) == cfg.colorThresholds
\* langSettings.colorThresholds || this.colorThresholds (part_002 447-448)
Thresholds(cfg, filePath) ==
    LET langSettings == GetLanguageSettings(cfg, filePath)
    IN  IF langSettings.colorThresholds # NoThresholds THEN langSettings.colorThresholds
        ELSE cfg.colorThresholds

\* let color (part_002 498-512)
CreateDecorationColor(count, filePath, isDirectory, cfg) ==
    LET thresholds == Thresholds(cfg, filePath)
    IN  IF ~isDirectory
        THEN IF count >= thresholds.large THEN "errorForeground"
             ELSE IF count >= thresholds.medium THEN "editorWarning.foreground"
             ELSE IF count >= thresholds.small THEN "editorInfo.foreground"
             ELSE "descriptionForeground"
        ELSE "descriptionForeground"

-----------------------------------------------------------------------------
(* The settings and the files of the runs                                  *)

MiB == 1024 * 1024

\* The colorThresholds default reloadConfig passes (part_002 284-288)
DefaultThresholds == [small |-> 100, medium |-> 500, large |-> 1000]

\* linepeek settings of a user: everything shown, nothing ignored
Plain ==
    [enable |-> TRUE, ignoredFileExtensions |-> <<>>, ignoredPatterns |-> <<>>,
     fileSizeLimitMB |-> 1, showSloc |-> TRUE, showDirectoryTotals |-> TRUE,
     displayMode |-> "lines", useCompactNumbers |-> TRUE,
     colorThresholds |-> DefaultThresholds, enableLiveUpdates |-> TRUE,
     liveUpdateDelayMs |-> 1000, showGitChanges |-> FALSE,
     languageSettings |-> EmptyMap]

\* ... and with ".MD" files, "*.map" files and "lib" directories ignored
Picky ==
    [enable |-> TRUE, ignoredFileExtensions |-> << <<".", "M", "D">> >>,
     ignoredPatterns |-> << <<"*", "*", "/", "*", ".", "m", "a", "p">>,
                            <<"*", "*", "/", "l", "i", "b">> >>,
     fileSizeLimitMB |-> 1, showSloc |-> FALSE, showDirectoryTotals |-> TRUE,
     displayMode |-> "lines", useCompactNumbers |-> TRUE,
     colorThresholds |-> DefaultThresholds, enableLiveUpdates |-> TRUE,
     liveUpdateDelayMs |-> 1000, showGitChanges |-> FALSE,
     languageSettings |-> EmptyMap]

HostConfigs == {Plain, Picky}

\* ... and with the extension disabled and no SLOC shown
Off == [Picky EXCEPT !.enable = FALSE]

Node(parent, name, kind, content, pad) ==
    [parent |-> parent, name |-> name, kind |-> kind, content |-> content,
     pad |-> pad, mtime |-> 1]

At(parent, f) == Node(parent, f.name, f.kind, f.content, f.pad)

File(name, content, pad) == [name |-> name, kind |-> "file", content |-> content, pad |-> pad]

JsTwo  == File(<<"a", ".", "j", "s">>, <<"x", LF, "x">>, 0)
MapOne == File(<<"m", ".", "m", "a", "p">>, <<"x">>, 0)
MdTwo  == File(<<"b", ".", "M", "D">>, <<"x", LF>>, 0)
DotOne == File(<<".", "e">>, <<"x">>, 0)
Big    == File(<<"g", ".", "j", "s">>, <<"x", LF>>, MiB)
Edge   == File(<<"h", ".", "j", "s">>, <<LF>>, MiB - 1)
Link   == [name |-> <<"s", ".", "j", "s">>, kind |-> "other", content |-> <<"x">>, pad |-> 0]
Gone   == [name |-> <<"z">>, kind |-> "absent", content |-> <<>>, pad |-> 0]

Dir(name) == [name |-> name, kind |-> "dir", content |-> <<>>, pad |-> 0]

\* The folder /w with an entry, a directory, and in it an entry and a
\* directory with an entry
Trees ==
    {<<Node(0, <<"w">>, "dir", <<>>, 0), At(1, a), At(1, d1), At(3, b), At(3, d2), At(5, c)>> :
        a \in {JsTwo, MapOne, Big, Edge, Link},
        d1 \in {Dir(<<"s", "r", "c">>), Dir(<<".", "h">>), Dir(NodeModules)},
        b \in {JsTwo, MdTwo, DotOne},
        d2 \in {Dir(<<"s", "u", "b">>), Dir(<<"l", "i", "b">>)},
        c \in {JsTwo, Gone}}

\* The folder /w with two files the user edits
Flat ==
    <<Node(0, <<"w">>, "dir", <<>>, 0),
      At(1, File(<<"a", ".", "j", "s">>, <<"x">>, 0)),
      At(1, File(<<"b", ".", "p", "y">>, <<"x">>, 0))>>

\* The characters of the files countSloc is run on, and their paths
SlocChars == {"/", "*", "#", "-", "x", " ", LF}

\* Files of the shapes of the countSloc tests (extension.ts 260-303) and files
\* with a block comment over several lines
SlocExamples ==
    {<<"/", "/", " ", "x", LF, "x", " ", "x", LF, " ", " ", "/", "/", " ",
            "x", LF, "x", LF, LF, "/", "*", " ", "x", LF, " ", " ", " ", "x",
            " ", "*", "/", LF, "x">>,
     <<"/", "/", " ", "x", LF, "/", "*", LF, " ", "*", " ", "x", LF, " ", "*",
            "/">>,
     <<"#", " ", "x", LF, "x", LF, LF, "x", " ", " ", "#", " ", "x">>,
     <<"x", "/", "*", LF, "*", "/", "x">>,
     <<"/", "*", LF, "x", LF, "*", "/", " ", "/", "*", LF, "x">>,
     <<"x", " ", "/", "*", " ", "x", " ", "*", "/">>}

SlocPaths == {<<"a", ".", "j", "s">>, <<"a", ".", "p", "h", "p">>, <<"a", ".", "s", "q", "l">>,
              <<"a", ".", "p", "y">>, <<"a", ".", "c", "s", "s">>, <<"a">>,
              <<"a", ".", "M", "D">>, <<"a", ".", "j", "s", "o", "n">>}

\* The arguments and the settings createDecoration is run on
BadgeLarge == {99, 100, 101, 499, 500, 999, 1000, 1001, 1234, 999999, 1000000}

BadgeSizes == {0, 1, 10, 100, 1023, 1024, 1536, 10240, MiB - 1, MiB}

BadgePaths == {<<"/", "w", "/", "a", ".", "j", "s">>, <<"/", "w", "/", "b", ".", "J", "S">>,
               <<"/", "w", "/", "a", ".", "p", "y">>}

LowThresholds == [small |-> 2, medium |-> 4, large |-> 6]

\* languageSettings with thresholds of their own for "js" files, and with a
\* "py" entry that has none
JsOverride ==
    MapSet(MapSet(EmptyMap, <<"j", "s">>,
                  [colorThresholds |-> [small |-> 1, medium |-> 3, large |-> 1000],
                   showSloc |-> FALSE]),
           <<"p", "y">>, [colorThresholds |-> NoThresholds, showSloc |-> TRUE])

BadgeConfigs ==
    {ReloadConfig([Plain EXCEPT !.displayMode = mode, !.useCompactNumbers = compact,
                                !.colorThresholds = t, !.languageSettings = lang]) :
        mode \in {"lines", "size", "both"}, compact \in BOOLEAN,
        t \in {DefaultThresholds, LowThresholds}, lang \in {EmptyMap, JsOverride}}

\* The characters of the patterns and of the paths matchGlob is run on
GlobPatternChars == {"a", "b", "*", "?", "/"}

GlobPathChars == {"a", "B", "/", LF}

\* The ignore patterns of the settings' defaults with a path each matches and
\* a path it does not match
GlobExamples ==
    {[pattern |-> <<"*", "*", "/">> \o NodeModules \o <<"/", "*", "*">>,
      path |-> <<"p", "r", "o", "j", "e", "c", "t", "/">> \o NodeModules \o
               <<"/", "p", "k", "g", "/", "i", "n", "d", "e", "x", ".", "j", "s">>,
      matches |-> TRUE],
     [pattern |-> <<"*", "*", "/">> \o NodeModules \o <<"/", "*", "*">>,
      path |-> <<"p", "r", "o", "j", "e", "c", "t", "/", "s", "r", "c", "/">> \o
               NodeModules \o <<".", "j", "s">>,
      matches |-> FALSE],
     [pattern |-> <<"*", "*", "/", "*", ".", "m", "i", "n", ".", "j", "s">>,
      path |-> <<"d", "i", "s", "t", "/", "a", "p", "p", ".", "m", "i", "n", ".", "j", "s">>,
      matches |-> TRUE],
     [pattern |-> <<"*", "*", "/", "*", ".", "m", "i", "n", ".", "j", "s">>,
      path |-> <<"d", "i", "s", "t", "/", "a", "p", "p", ".", "j", "s">>,
      matches |-> FALSE]}

\* A file of the folder itself, named in capitals, and a pattern for files of
\* that name at any depth
GlobEdges ==
    {[pattern |-> <<"*", "*", "/", "b", ".", "j", "s">>, path |-> <<"B", ".", "J", "S">>,
      matches |-> TRUE]}

\* What an edit leaves in a file
EditContents == {<<"x", LF, "x">>}

FlatFiles == {n \in DOMAIN Flat : Flat[n].kind = "file"}

\* The file of Flat the user edits and saves
FlatEdited == {n \in FlatFiles : Flat[n].name = <<"a", ".", "j", "s">>}

-----------------------------------------------------------------------------
(* Specifications *)

FmtIdle == fmtN = 0 /\ fmtPc = "call" /\ fmtOut = <<>>

ClIdle ==
    /\ clFile = [content |-> <<>>, exists |-> TRUE]
    /\ clPc = "reading" /\ clPos = 0 /\ clCount = 0 /\ clResult = None

\* The provider as its constructor leaves it (part_002 237-261)
ProvInit(tree, h, budget) ==
    /\ fs = tree
    /\ hostConfig = h
    /\ config = ReloadConfig(h)
    /\ cache = EmptyMap
    /\ slocCache = EmptyMap
    /\ perf = [hits |-> 0, misses |-> 0]
    /\ req = [r \in Slots |-> IdleReq]
    /\ scan = IdleScan
    /\ env = budget
    /\ hist = [last |-> NoOp, edit |-> [n \in DOMAIN tree |-> "never"],
               inv |-> [n \in DOMAIN tree |-> "none"],
               taken |-> [n \in DOMAIN tree |-> FALSE]]

Budget(ops, requests, scans, faults) ==
    [ops |-> ops, requests |-> requests, scans |-> scans, faults |-> faults]

ProvIdle == ProvInit(Flat, Plain, Budget(0, 0, 0, 0))

\* No call of countSloc, createDecoration or matchGlob
CallIdle == call = [fn |-> "none", pc |-> "call", out |-> None]

\* let debounceTimer: undefined (part_002 200)
LiveIdle == live = [armed |-> FALSE, doc |-> 0, delay |-> 0, enabled |-> FALSE, pending |-> {}]

InitCountLines == ClInit /\ FmtIdle /\ CallIdle /\ ProvIdle /\ LiveIdle

SpecCountLines == InitCountLines /\ [][ClNext]_vars

InitFormat == FmtInit /\ ClIdle /\ CallIdle /\ ProvIdle /\ LiveIdle

SpecFormat == InitFormat /\ [][FmtNext]_vars

\* countSloc on a file of up to MaxSloc characters, its language taken from
\* the extension of the path
InitSloc ==
    /\ ClIdle /\ FmtIdle /\ ProvIdle /\ LiveIdle
    /\ \E content \in SeqsUpTo(SlocChars, MaxSloc) \cup SlocExamples, filePath \in SlocPaths :
            call = [fn |-> "countSloc", pc |-> "call", out |-> None,
                    content |-> content, filePath |-> filePath]

\* The promise countSloc returned resolves
SlocCall ==
    /\ call.fn = "countSloc" /\ call.pc = "call"
    /\ call' = [call EXCEPT !.pc = "returned",
                            !.out = CountSloc(call.content, call.filePath, None)]
    /\ UNCHANGED notCall

SpecSloc == InitSloc /\ [][SlocCall]_vars

\* matchGlob on a short pattern and a short path, or on one of the examples
InitGlob ==
    /\ ClIdle /\ FmtIdle /\ ProvIdle /\ LiveIdle
    /\ \/ \E pattern \in SeqsUpTo(GlobPatternChars, MaxGlob),
             filePath \in SeqsUpTo(GlobPathChars, MaxGlob) :
                call = [fn |-> "matchGlob", pc |-> "call", out |-> None,
                        filePath |-> filePath, pattern |-> pattern]
       \/ \E e \in GlobExamples \cup GlobEdges :
                call = [fn |-> "matchGlob", pc |-> "call", out |-> None,
                        filePath |-> e.path, pattern |-> e.pattern]

\* return regex.test(filePath)
GlobCall ==
    /\ call.fn = "matchGlob" /\ call.pc = "call"
    /\ call' = [call EXCEPT !.pc = "returned",
                            !.out = MatchGlob(call.filePath, call.pattern)]
    /\ UNCHANGED notCall

SpecGlob == InitGlob /\ [][GlobCall]_vars

\* formatFileSize of n * 1024^e bytes, a safe integer
SizeEdges == {100, 1023, 1024, 1075, 1076, 1536, 10240, 1048575, 1048576, 1572864}

InitSize ==
    /\ ClIdle /\ FmtIdle /\ ProvIdle /\ LiveIdle
    /\ \E n \in (0..MaxSizeSmall) \cup SizeEdges, e \in 0..MaxScale :
        /\ e = 0 \/ n \in 1..7
        /\ call = [fn |-> "formatFileSize", pc |-> "call", out |-> None,
                   n |-> n, e |-> e]

SizeCall ==
    /\ call.fn = "formatFileSize" /\ call.pc = "call"
    /\ call' = [call EXCEPT !.pc = "returned", !.out = FormatFileSizeTimes(call.n, call.e)]
    /\ UNCHANGED notCall

SpecSize == InitSize /\ [][SizeCall]_vars

\* createDecoration of a file or a directory, up to its badge and its color
InitBadge ==
    /\ ClIdle /\ FmtIdle /\ ProvIdle /\ LiveIdle
    /\ \E count \in (0..MaxBadge) \cup BadgeLarge, fileSize \in BadgeSizes,
          filePath \in BadgePaths, isDirectory \in BOOLEAN, cfg \in BadgeConfigs :
            call = [fn |-> "createDecoration", pc |-> "call", out |-> None,
                    count |-> count, fileSize |-> fileSize, filePath |-> filePath,
                    isDirectory |-> isDirectory, cfg |-> cfg]

\* return { badge, tooltip, color }
BadgeCall ==
    /\ call.fn = "createDecoration" /\ call.pc = "call"
    /\ \E badge \in CreateDecorationBadge(call.count, call.fileSize, call.isDirectory,
                                          call.cfg) :
            call' = [call EXCEPT
                        !.pc = "returned",
                        !.out = [badge |-> badge,
                                 color |-> CreateDecorationColor(call.count, call.filePath,
                                                                 call.isDirectory, call.cfg)]]
    /\ UNCHANGED notCall

SpecBadge == InitBadge /\ [][BadgeCall]_vars

\* Decorations of two files while one of them is edited and saved and the
\* settings change; no I/O call fails
Init ==
    /\ ClIdle /\ FmtIdle /\ CallIdle /\ LiveIdle
    /\ ProvInit(Flat, Plain, Budget(MaxOps, MaxOps, 0, 0))

Next ==
    \/ \E r \in Slots, n \in FlatFiles : Provide(r, n, "file")
    \/ \E r \in Slots, ok \in BOOLEAN : StatIO(r, ok)
    \/ \E r \in Slots : StatResumeFile(r)
    \/ \E r \in Slots, ok \in BOOLEAN : CountIO(r, ok)
    \/ \E r \in Slots : CountResume(r)
    \/ \E r \in Slots, ok \in BOOLEAN : SlocIO(r, ok)
    \/ \E r \in Slots : SlocResume(r)
    \/ \E n \in FlatEdited : OnDidSaveTextDocument(n)
    \/ \E h \in HostConfigs : OnDidChangeConfiguration(h)
    \/ \E n \in FlatEdited, c \in EditContents : Edit(n, c)

Spec == Init /\ [][Next]_vars

\* One decoration request, or one run of the statistics command, on a tree,
\* with I/O calls that fail
InitTree ==
    /\ ClIdle /\ FmtIdle /\ CallIdle /\ LiveIdle
    /\ \E tree \in Trees, h \in HostConfigs \cup {Off}, scans \in {0, 1} :
        ProvInit(tree, h, Budget(1, 1 - scans, scans, MaxFaults))

NextTree ==
    \/ \E r \in Slots, n \in DOMAIN fs, scheme \in {"file", "git"} : Provide(r, n, scheme)
    \/ \E r \in Slots, ok \in BOOLEAN : StatIO(r, ok)
    \/ \E r \in Slots : StatResumeFile(r)
    \/ \E r \in Slots : StatResumeDir(r)
    \/ \E r \in Slots, ok \in BOOLEAN : CountIO(r, ok)
    \/ \E r \in Slots : CountResume(r)
    \/ \E r \in Slots, ok \in BOOLEAN : SlocIO(r, ok)
    \/ \E r \in Slots : SlocResume(r)
    \/ \E r \in Slots, ok \in BOOLEAN : DirList(r, ok)
    \/ \E r \in Slots, ok \in BOOLEAN : DirFileStat(r, ok)
    \/ \E r \in Slots, ok \in BOOLEAN : DirFileCount(r, ok)
    \/ \E open \in BOOLEAN : ScanStart(open)
    \/ \E ok \in BOOLEAN : ScanList(ok)
    \/ \E ok \in BOOLEAN : ScanFileStat(ok)
    \/ \E ok \in BOOLEAN : ScanFileStats(ok)
    \/ ScanCancel

SpecTree == InitTree /\ [][NextTree]_vars

\* ... and with live updates off
Quiet == [Plain EXCEPT !.enableLiveUpdates = FALSE]

LiveConfigs == {Plain, Quiet}

\* Text changes in the two files of the folder, the timer, decorations of the
\* files and changes of the enableLiveUpdates setting
InitLive ==
    /\ ClIdle /\ FmtIdle /\ CallIdle /\ LiveIdle
    /\ \E h \in LiveConfigs : ProvInit(Flat, h, Budget(MaxOps, 1, 0, 0))

NextLive ==
    \/ \E n \in FlatFiles : OnDidChangeTextDocument(n)
    \/ DebounceFire
    \/ \E h \in LiveConfigs : OnDidChangeConfiguration(h)
    \/ \E r \in Slots, n \in FlatFiles : Provide(r, n, "file")
    \/ \E r \in Slots, ok \in BOOLEAN : StatIO(r, ok)
    \/ \E r \in Slots : StatResumeFile(r)
    \/ \E r \in Slots, ok \in BOOLEAN : CountIO(r, ok)
    \/ \E r \in Slots : CountResume(r)
    \/ \E r \in Slots, ok \in BOOLEAN : SlocIO(r, ok)
    \/ \E r \in Slots : SlocResume(r)

SpecLive == InitLive /\ [][NextLive]_vars

ReloadConfigs == {Plain, Off}

\* Decorations of the two files of the folder while the settings change
InitReload ==
    /\ ClIdle /\ FmtIdle /\ CallIdle /\ LiveIdle
    /\ \E h \in ReloadConfigs : ProvInit(Flat, h, Budget(MaxOps, MaxOps, 0, 0))

NextReload ==
    \/ \E h \in ReloadConfigs : OnDidChangeConfiguration(h)
    \/ \E r \in Slots, n \in FlatFiles : Provide(r, n, "file")
    \/ \E r \in Slots, ok \in BOOLEAN : StatIO(r, ok)
    \/ \E r \in Slots : StatResumeFile(r)
    \/ \E r \in Slots, ok \in BOOLEAN : CountIO(r, ok)
    \/ \E r \in Slots : CountResume(r)
    \/ \E r \in Slots, ok \in BOOLEAN : SlocIO(r, ok)
    \/ \E r \in Slots : SlocResume(r)

SpecReload == InitReload /\ [][NextReload]_vars

-----------------------------------------------------------------------------
(* Properties: the count cache and the SLOC cache (Spec)                   *)

\* The steps of call r that look the count cache up and that store in it
C1_Step(r) ==
    LET q    == req[r]
        p    == req'[r]
        n    == q.uri
        same == n \in DOMAIN cache /\ cache[n].mtime = q.stat.mtime
    IN  /\ ( /\ q.pc = "statted" /\ p.pc # "statted"
             /\ q.stat.ok /\ ~q.stat.isDir
             /\ q.stat.size <= config.fileSizeLimitBytes ) =>
                /\ same => /\ p.pc # "count"
                           /\ p.opened = q.opened
                           /\ cache' = cache
                           /\ IF p.pc = "done"
                              THEN /\ p.result.kind = "decoration"
                                   /\ p.result.count = cache[n].count
                              ELSE p.pc = "sloc" /\ p.count = cache[n].count
                /\ ~same => p.pc = "count"
        /\ (q.pc = "counted" /\ q.io /\ p.pc # "counted") =>
                cache' = MapSet(cache, n, [count |-> q.count, size |-> q.stat.size,
                                           mtime |-> q.stat.mtime])

\* C1: a file decoration request skips countLines and returns the cached count
\* if and only if the count cache holds an entry for the file whose mtime
\* equals the mtime of the stat made for this request; otherwise it calls
\* countLines and replaces the entry with the new (count, size, mtime).
C1_HitIffSameMtime == [][\A r \in Slots : C1_Step(r)]_vars

\* A request answered from the cache without a read
C1_Witness ==
    \E r \in Slots :
        /\ req[r].pc = "done" /\ req[r].look = "hit" /\ req[r].opened = <<>>
        /\ req[r].result.kind = "decoration"
        /\ req[r].uri \in DOMAIN cache
        /\ req[r].result.count = cache[req[r].uri].count
        /\ perf.hits = 1 /\ perf.misses = 1

C2_FrameStep ==
    hist'.last.op = "invalidate" =>
        LET n == hist'.last.id
        IN  /\ DOMAIN cache' = (DOMAIN cache) \ {n}
            /\ DOMAIN slocCache' = (DOMAIN slocCache) \ {n}
            /\ \A m \in DOMAIN cache' : cache'[m] = cache[m]
            /\ \A m \in DOMAIN slocCache' : slocCache'[m] = slocCache[m]

\* C2 (as amended): invalidate(id) removes exactly the entries keyed by id
\* from the count cache and from the SLOC cache and leaves every other entry
\* of both caches unchanged; the next request for id finds no count entry and
\* recomputes, unless a request for id that was in flight has stored one
\* since the invalidation.
C2_InvalidateFrame ==
    /\ [][C2_FrameStep]_vars
    /\ [](\A r \in Slots : req[r].saw = "fresh" => req[r].look = "absent")

\* An invalidation that removed both entries of one file and left those of
\* the other
C2_Witness ==
    /\ hist.last.op = "invalidate" /\ hist.last.had
    /\ hist.last.id \notin (DOMAIN cache) \cup (DOMAIN slocCache)
    /\ \E m \in DOMAIN cache : m \in DOMAIN slocCache

\* C2 (as stated): the next request for id after invalidate(id) recomputes
\* the count.
C2_NextRequestRecomputes ==
    \A r \in Slots : (req[r].next /\ req[r].look # "none") => req[r].look # "hit"

\* C3: every configuration change that affects the linepeek section reloads
\* the configuration and empties both caches: when the handler returns both
\* caches have no entries.
C3_ConfigChangeClears ==
    [][hostConfig' # hostConfig =>
            /\ config' = ReloadConfig(hostConfig')
            /\ cache' = EmptyMap
            /\ slocCache' = EmptyMap]_vars

\* A configuration change that found entries in both caches
C3_Witness ==
    /\ hist.last.op = "reload" /\ hist.last.had
    /\ cache = EmptyMap /\ slocCache = EmptyMap
    /\ config = ReloadConfig(hostConfig)

\* C4: after an edit and invalidate(id), the next request for id that starts
\* after the invalidation reports the line count and the SLOC of the edited
\* content, also when another request for id was in flight meanwhile.
C4_NextRequestReportsEdit ==
    \A r \in Slots :
        LET q == req[r]
        IN  (q.pc = "done" /\ q.result.kind = "decoration" /\ q.next /\ q.clean) =>
                /\ q.result.count = CountLines(fs[q.uri].content)
                /\ q.result.sloc \in {-1, CountSloc(fs[q.uri].content,
                                                    PathOf(fs, q.uri), None)}

-----------------------------------------------------------------------------
(* Properties: countLines (SpecCountLines)                                 *)

-----------------------------------------------------------------------------
(* Properties: formatCompactNumber (SpecFormat)                            *)

\* C6: for every integer n >= 0, formatCompactNumber(n) has at most 2
\* characters.
C6_AtMostTwoChars == fmtPc = "returned" => Len(fmtOut) <= 2

RoundHalfUp(n, d) == (2 * n + d) \div (2 * d)

TieredReference(n) ==
    IF n < 100 THEN Digits(n)
    ELSE IF n < 950 THEN Digits(RoundHalfUp(n, 100)) \o <<"H">>
    ELSE IF n < 1500 THEN <<"1", "k">>
    ELSE IF n < 9500 THEN Digits(RoundHalfUp(n, 1000)) \o <<"k">>
    ELSE <<"k", "+">>

\* C7: formatCompactNumber equals the tiered reference: digits below 100,
\* round-half-up(n/100) and 'H' from 100 to 949, '1k' from 950 to 1499,
\* round-half-up(n/1000) and 'k' from 1500 to 9499, 'k+' from 9500 on.
C7_EqualsTieredReference == fmtPc = "returned" => fmtOut = TieredReference(fmtN)

-----------------------------------------------------------------------------
(* Properties: decorations and statistics of a tree (SpecTree)             *)

RECURSIVE SumLines(_, _)
\* The sum of countLines over the files of a sequence of nodes
SumLines(nodes, tree) ==
    IF nodes = <<>> THEN 0
    ELSE FileCountLines(tree[Head(nodes)]) + SumLines(Tail(nodes), tree)

\* Every read was started on a file whose stat, made before by the same run,
\* gave a size within the limit
ReadsAfterSizeCheck(opened, sized, limit) ==
    \A i \in 1..Len(opened) :
        opened[i] \in sized /\ FileSize(fs[opened[i]]) <= limit

\* C8: on every path that counts a file (single-file decoration, directory
\* aggregation, workspace scan) the size is obtained by stat and compared with
\* the limit before any read of the content starts; a file over the limit is
\* never opened and contributes no decoration and nothing to any total.
C8_SizeCheckedBeforeRead ==
    /\ \A r \in Slots :
        LET q == req[r]
        IN  /\ ReadsAfterSizeCheck(q.opened, q.sized, config.fileSizeLimitBytes)
            /\ q.pc \in {"count", "sloc"} => q.uri \in q.sized
            /\ q.pc = "fcount" => q.cur \in q.sized
            /\ (q.pc = "done" /\ q.stat.ok /\ ~q.stat.isDir
                    /\ q.stat.size > config.fileSizeLimitBytes) =>
                        q.result.kind = "undefined" /\ q.opened = <<>>
            /\ (q.pc = "done" /\ q.result.kind = "decoration" /\ q.result.isDir) =>
                        q.result.count = SumLines(q.counted, fs)
    /\ ReadsAfterSizeCheck(scan.opened, scan.sized, scan.cfg.fileSizeLimitBytes)
    /\ scan.pc = "fread" => scan.cur \in scan.sized
    /\ scan.totalLines = SumLines(scan.counted, fs)
    /\ scan.totalFiles = Len(scan.counted)

\* A request for a file over the limit that ended without a read
C8_Witness ==
    \E r \in Slots :
        /\ req[r].pc = "done" /\ req[r].stat.ok /\ ~req[r].stat.isDir
        /\ req[r].stat.size > config.fileSizeLimitBytes
        /\ req[r].result.kind = "undefined" /\ req[r].opened = <<>>

\* C9: provideFileDecoration never fails toward the host: when stat, the
\* line-count read, the SLOC read or the directory listing fails the request
\* resolves to undefined instead of rejecting, and a failed count stores no
\* cache entry.
C9_NeverRejects ==
    /\ [](\A r \in Slots :
            /\ req[r].result.kind # "thrown"
            /\ (req[r].pc = "done" /\ (~req[r].stat.ok \/ ~req[r].io)) =>
                    req[r].result.kind = "undefined")
    /\ [][\A r \in Slots :
            (req[r].pc = "counted" /\ ~req[r].io /\ req'[r].pc = "done") =>
                    cache' = cache]_vars

\* A request whose line-count read failed
C9_Witness ==
    \E r \in Slots :
        /\ req[r].pc = "done" /\ req[r].stat.ok /\ ~req[r].stat.isDir /\ ~req[r].io
        /\ req[r].look = "absent" /\ req[r].count = -1
        /\ req[r].result.kind = "undefined"
        /\ req[r].uri \notin DOMAIN cache

RECURSIVE Above(_, _)
\* The directories a node lies in, nearest first
Above(tree, n) ==
    IF tree[n].parent = 0 THEN {}
    ELSE {tree[n].parent} \cup Above(tree, tree[n].parent)

\* The regular files below directory d the total is made of
Eligible(tree, cfg, d) ==
    {f \in DOMAIN tree :
        /\ tree[f].kind = "file"
        /\ d \in Above(tree, f)
        /\ ToLowerCase(ExtName(PathOf(tree, f))) \notin cfg.ignoredExtensions
        /\ ~MatchesIgnoredPattern(cfg, PathOf(tree, f))
        /\ FileSize(tree[f]) <= cfg.fileSizeLimitBytes
        /\ \A a \in Above(tree, f) :
            d \in Above(tree, a) =>
                /\ tree[a].name[1] # "."
                /\ tree[a].name # NodeModules
                /\ ~MatchesIgnoredPattern(cfg, PathOf(tree, a))}

\* C10: the directory total is the sum of countLines over exactly the regular
\* files, at every depth, that no ignored extension, ignored pattern or size
\* limit excludes and that lie under no hidden, node_modules or
\* pattern-ignored subdirectory, each counted once (no I/O call failing).
C10_DirectoryTotal ==
    \A r \in Slots :
        LET q == req[r]
        IN  (q.pc = "done" /\ q.stat.ok /\ q.stat.isDir /\ config.showDirectoryTotals
                /\ env.faults = MaxFaults) =>
                    /\ q.result.kind = "decoration"
                    /\ q.result.count = SumLines(SeqOfSet(Eligible(fs, config, q.uri)), fs)
                    /\ Range(q.counted) = Eligible(fs, config, q.uri)
                    /\ Len(q.counted) = Cardinality(Eligible(fs, config, q.uri))

\* The total of the folder, made of files of two depths, with a file left out
C10_Witness ==
    \E r \in Slots :
        /\ req[r].pc = "done" /\ req[r].uri = Root(fs) /\ env.faults = MaxFaults
        /\ req[r].result.kind = "decoration" /\ req[r].result.isDir
        /\ Len(req[r].counted) >= 2
        /\ req[r].result.count >= 4
        /\ \E f \in DOMAIN fs : fs[f].kind = "file" /\ f \notin Range(req[r].counted)

\* The files in or below directory d
Below(tree, d) == {f \in DOMAIN tree : d \in Above(tree, f)}

\* C11: in directory aggregation and in the workspace scan a failure on an
\* entry below the root (a file whose stat or read fails, a subdirectory whose
\* listing fails) makes that entry contribute zero and the siblings are still
\* processed: the aggregate is produced and is the sum over the entries that
\* did not fail.
C11_EntryFailureContributesZero ==
    /\ \A r \in Slots :
        LET q    == req[r]
            all  == Eligible(fs, config, q.uri)
            lost == IF q.io THEN {} ELSE Below(fs, q.cur)
        IN  (q.pc = "done" /\ q.stat.ok /\ q.stat.isDir /\ config.showDirectoryTotals
                /\ (q.io \/ q.cur # q.uri)) =>
                    /\ q.result.kind = "decoration"
                    /\ q.result.count = SumLines(q.counted, fs)
                    /\ all \ lost \subseteq Range(q.counted) \cup
                            {f \in all : ~q.io \/ env.faults < MaxFaults}
                    /\ Cardinality((all \ lost) \ Range(q.counted)) <= MaxFaults - env.faults
    /\ (scan.pc = "done" /\ scan.result # "nofolder" /\ scan.cur # Root(fs)) =>
            /\ scan.result \in {"shown", "cancelled"}
            /\ scan.totalLines = SumLines(scan.counted, fs)

\* C12: during a workspace scan the cancellation flag is checked before each
\* file or directory entry is processed: once cancellation is requested no
\* further entry is stat'ed, listed or read (the call in flight settles, and
\* at most the read of the entry whose stat was in flight follows), the totals
\* do not change any more, and the scan ends with the cancellation
\* acknowledgment instead of a report.
C12_CancelStopsScan ==
    [][(scan.cancel /\ scan' # scan) =>
            /\ \/ scan'.pc = "done"
               \/ scan.pc = "fstat" /\ scan'.pc = "fread" /\ scan'.cur = scan.cur
            /\ scan'.totalFiles = scan.totalFiles
            /\ scan'.totalLines = scan.totalLines
            /\ scan'.totalSize = scan.totalSize
            /\ scan'.languageStats = scan.languageStats
            /\ scan'.pc = "done" => scan'.result \in {"cancelled", "rejected"}]_vars

-----------------------------------------------------------------------------
(* Properties: live updates (SpecLive)                                     *)

\* C13: with live updates enabled every text-change event on a document is
\* followed by an invalidation of that document once the changes have stopped
\* for the debounce delay, whatever change events other documents had
\* meanwhile: when no timer is left to run, no changed document is still
\* waiting for its invalidation.  With live updates disabled a text-change
\* event invalidates nothing: a timer is set only by an event handled with
\* live updates enabled.
C13_EveryChangeInvalidates ==
    /\ ~live.armed => live.pending = {}
    /\ live.armed => live.enabled

-----------------------------------------------------------------------------
(* Properties: settings changes during a request (SpecReload)              *)

\* What a settled request for a file shows is what the settings c alone give:
\* no decoration when c disables the extension, ignores the file or sets the
\* limit below its size, else a decoration with a SLOC line iff c shows SLOC
FromSnapshot(c, q) ==
    IF \/ ~PassesChecks(c, PathOf(fs, q.uri), q.scheme)
       \/ OverLimit(q.stat.size, c.fileSizeLimitBytes)
    THEN q.result.kind = "undefined"
    ELSE /\ q.result.kind = "decoration"
         /\ q.result.sloc # -1 <=> c.showSloc

\* C14: every decoration request computes its result from the provider fields
\* of one reloadConfig generation, also when a settings change is handled while
\* the request is suspended at an I/O call: the result of a request whose I/O
\* calls all succeeded is the result one of the generations it lived through
\* gives.
C14_OneSnapshot ==
    \A r \in Slots :
        LET q == req[r]
        IN  (q.pc = "done" /\ q.stat.ok /\ q.io) =>
                \E c \in q.cfgs : FromSnapshot(c, q)

-----------------------------------------------------------------------------
(* Properties: countSloc (SpecSloc)                                        *)

\* A non-blank trimmed line that is a comment and nothing else: "code" when it
\* is not, else whether a block comment is open after it.  The line starts
\* with a single-line marker, or it lies in one block comment: the comment is
\* open before the line or starts the line, and stays open or ends the line
PureLine(t, pat, inBlock) ==
    LET hasBlock == pat.blockStart # None /\ pat.blockEnd # None
        closes(from) ==
            LET e == IndexOf(t, pat.blockEnd, from)
            IN  IF e = -1 THEN "in"
                ELSE IF e + Len(pat.blockEnd) = Len(t) THEN "out" ELSE "code"
    IN  IF inBlock THEN closes(0)
        ELSE IF pat.single # None
                /\ \E k \in 1..Len(pat.single) : StartsWith(t, pat.single[k])
        THEN "out"
        ELSE IF hasBlock /\ StartsWith(t, pat.blockStart)
        THEN closes(Len(pat.blockStart))
        ELSE "code"

RECURSIVE PureFrom(_, _, _, _)
\* Every non-blank line from the k-th on is a pure comment
PureFrom(lines, k, pat, inBlock) ==
    IF k > Len(lines) THEN TRUE
    ELSE LET t == Trim(lines[k])
         IN  IF t = <<>> THEN PureFrom(lines, k + 1, pat, inBlock)
             ELSE LET after == PureLine(t, pat, inBlock)
                  IN  after # "code" /\ PureFrom(lines, k + 1, pat, after = "in")

\* C15: for every file whose non-blank lines are all pure comments of its
\* language (each line starts with a single-line marker or lies entirely
\* inside a block comment) countSloc returns 0.
C15_CommentOnlyIsZero ==
    (call.fn = "countSloc" /\ call.pc = "returned"
        /\ PureFrom(SplitLines(call.content), 1,
                    GetCommentPatternsForLanguage(None, call.filePath), FALSE)) =>
            call.out = 0

-----------------------------------------------------------------------------
(* Properties: the badge and the color of a decoration (SpecBadge)         *)

\* C16: the badge of every decoration of a file has at most 2 characters, in
\* every display mode, with compact numbers on or off, for every line count
\* and file size; the badge of a directory is the aggregate marker and exactly
\* one character.
C16_BadgeFits ==
    (call.fn = "createDecoration" /\ call.pc = "returned") =>
        IF call.isDirectory
        THEN Len(call.out.badge) = 2 /\ call.out.badge[1] = AggregateMarker
        ELSE Len(call.out.badge) <= 2

\* C17: for a file with line count c and ascending thresholds T (those of the
\* languageSettings entry of the file's extension when it has some, else the
\* global ones) the color is the highest severity iff c >= T.large, the middle
\* one iff T.medium <= c < T.large, the low one iff T.small <= c < T.medium
\* and the neutral one iff c < T.small; a directory always has the neutral
\* color.
C17_ColorByThresholds ==
    (call.fn = "createDecoration" /\ call.pc = "returned") =>
        LET c     == call.count
            ext   == ToLowerCase(LastDotSegment(call.filePath))
            lang  == call.cfg.languageSettings
            T     == IF ext \in DOMAIN lang /\ lang[ext].colorThresholds # NoThresholds
                     THEN lang[ext].colorThresholds
                     ELSE call.cfg.colorThresholds
            color == call.out.color
        IN  IF call.isDirectory
            THEN color = "descriptionForeground"
            ELSE /\ T.small <= T.medium /\ T.medium <= T.large
                 /\ color = "errorForeground" <=> c >= T.large
                 /\ color = "editorWarning.foreground" <=> (T.medium <= c /\ c < T.large)
                 /\ color = "editorInfo.foreground" <=> (T.small <= c /\ c < T.medium)
                 /\ color = "descriptionForeground" <=> c < T.small

\* A file whose extension, in capitals, has thresholds of its own, with a count
\* that is of middle severity by them and neutral by the global ones
C17_Witness ==
    /\ call.fn = "createDecoration" /\ call.pc = "returned" /\ ~call.isDirectory
    /\ call.filePath = <<"/", "w", "/", "b", ".", "J", "S">>
    /\ call.cfg.languageSettings = JsOverride
    /\ call.cfg.colorThresholds = DefaultThresholds
    /\ call.count = 3
    /\ call.out.color = "editorWarning.foreground"

\* C18: for a directory total t the badge is the marker and the digit when
\* t < 10, the marker and 'H' when the compact form of t is in the hundreds
\* tier (100..949), the marker and 'k' when it is in the thousands tier or
\* saturates (950 and more), and the marker and '+' for every other total
\* (the two-digit ones).
C18_DirectoryBadge ==
    (call.fn = "createDecoration" /\ call.pc = "returned" /\ call.isDirectory) =>
        LET t       == call.count
            compact == TieredReference(t)
        IN  call.out.badge =
                <<AggregateMarker>> \o
                    (IF t < 10 THEN Digits(t)
                     ELSE IF EndsWith(compact, "H") THEN <<"H">>
                     ELSE IF EndsWith(compact, "k") \/ EndsWith(compact, "+") THEN <<"k">>
                     ELSE <<"+">>)

-----------------------------------------------------------------------------
(* Properties: matchGlob (SpecGlob)                                        *)

RECURSIVE GlobAsStated(_, _)
\* A whole-path, case-insensitive match in which '*' is a run without
\* separator, '**' a run of any characters, empty too, and '?' one character
GlobAsStated(p, s) ==
    IF p = <<>> THEN s = <<>>
    ELSE IF Len(p) >= 2 /\ p[1] = "*" /\ p[2] = "*"
    THEN \E k \in 0..Len(s) : GlobAsStated(SubSeq(p, 3, Len(p)), SubSeq(s, k + 1, Len(s)))
    ELSE IF p[1] = "*"
    THEN \E k \in 0..Len(s) :
            /\ \A x \in 1..k : s[x] # "/"
            /\ GlobAsStated(Tail(p), SubSeq(s, k + 1, Len(s)))
    ELSE IF p[1] = "?"
    THEN s # <<>> /\ GlobAsStated(Tail(p), Tail(s))
    ELSE s # <<>> /\ Lower(s[1]) = Lower(p[1]) /\ GlobAsStated(Tail(p), Tail(s))

RECURSIVE GlobAmended(_, _)
\* ... in which '**' and '?' match no line terminator, and '**' with the
\* separator that follows it is the empty run or a run that ends with a
\* separator
GlobAmended(p, s) ==
    IF p = <<>> THEN s = <<>>
    ELSE IF Len(p) >= 3 /\ p[1] = "*" /\ p[2] = "*" /\ p[3] = "/"
    THEN \/ GlobAmended(SubSeq(p, 4, Len(p)), s)
         \/ \E k \in 1..Len(s) :
                /\ s[k] = "/"
                /\ \A x \in 1..(k - 1) : s[x] \notin {LF, CR}
                /\ GlobAmended(SubSeq(p, 4, Len(p)), SubSeq(s, k + 1, Len(s)))
    ELSE IF Len(p) >= 2 /\ p[1] = "*" /\ p[2] = "*"
    THEN \E k \in 0..Len(s) :
            /\ \A x \in 1..k : s[x] \notin {LF, CR}
            /\ GlobAmended(SubSeq(p, 3, Len(p)), SubSeq(s, k + 1, Len(s)))
    ELSE IF p[1] = "*"
    THEN \E k \in 0..Len(s) :
            /\ \A x \in 1..k : s[x] # "/"
            /\ GlobAmended(Tail(p), SubSeq(s, k + 1, Len(s)))
    ELSE IF p[1] = "?"
    THEN s # <<>> /\ s[1] \notin {LF, CR} /\ GlobAmended(Tail(p), Tail(s))
    ELSE s # <<>> /\ Lower(s[1]) = Lower(p[1]) /\ GlobAmended(Tail(p), Tail(s))

\* matchGlob gave the examples what the settings' documentation says
ExamplesAsDocumented ==
    \A e \in GlobExamples :
        (call.pattern = e.pattern /\ call.filePath = e.path) => call.out = e.matches

\* C19 (as stated): the glob matcher is an anchored, case-insensitive
\* whole-path match in which '*' matches any run of characters without a path
\* separator, '**' any run including separators and the empty run, and '?'
\* exactly one character; the node_modules and the min.js examples match as
\* documented.
C19_GlobAsStated ==
    (call.fn = "matchGlob" /\ call.pc = "returned") =>
        /\ call.out = GlobAsStated(call.pattern, call.filePath)
        /\ ExamplesAsDocumented

\* C19 (amended): ... in which '**' and '?' match no line terminator and '**'
\* followed by a separator matches, together with it, the empty run or a run
\* that ends with a separator.
C19_GlobAmended ==
    (call.fn = "matchGlob" /\ call.pc = "returned") =>
        /\ call.out = GlobAmended(call.pattern, call.filePath)
        /\ ExamplesAsDocumented

\* A path in capitals with no separator that '**', a separator and the name
\* match
C19_Witness ==
    /\ call.fn = "matchGlob" /\ call.pc = "returned"
    /\ call.pattern = <<"*", "*", "/", "b", ".", "j", "s">>
    /\ call.filePath = <<"B", ".", "J", "S">>
    /\ call.out = TRUE

-----------------------------------------------------------------------------
(* Properties: the checks before stat (SpecTree)                           *)

\* The request is for something the settings leave without decoration: the
\* extension is disabled, the scheme is not 'file', an ignored pattern
\* matches the path or the extension is ignored
FailsACheck(q) ==
    LET path == PathOf(fs, q.uri)
        ext  == ToLowerCase(LastDotSegment(path))
    IN  \/ ~config.isEnabled
        \/ q.scheme # "file"
        \/ \E i \in 1..Len(config.ignoredPatterns) :
                \/ MatchGlob(AsRelativePath(path), config.ignoredPatterns[i])
                \/ MatchGlob(path, config.ignoredPatterns[i])
        \/ ext # <<>> /\ ext \in config.ignoredExtensions

\* C20: provideFileDecoration checks the enabled flag, the scheme, the ignored
\* patterns and the ignored extensions before it calls stat: a request that
\* fails one of the four returns no decoration with no stat, no directory
\* listing and no file read, and neither cache nor the hit and miss counters
\* are read or changed.
C20_ChecksBeforeStat ==
    \A r \in Slots :
        LET q == req[r]
        IN  (q.pc # "idle" /\ FailsACheck(q)) =>
                /\ q.pc = "done" /\ q.result = Undefined
                /\ q.stat = NoStat /\ q.io
                /\ q.stack = <<>> /\ q.cur = 0
                /\ q.sized = {} /\ q.opened = <<>> /\ q.counted = <<>>
                /\ q.look = "none"
                /\ cache = EmptyMap /\ slocCache = EmptyMap
                /\ perf = [hits |-> 0, misses |-> 0]

\* A request for a file of an ignored extension, on disk and with the
\* extension enabled, that ended without decoration and without a stat
C20_Witness ==
    \E r \in Slots :
        /\ req[r].pc = "done" /\ req[r].scheme = "file" /\ config.isEnabled
        /\ fs[req[r].uri].name = MdTwo.name
        /\ ~MatchesIgnoredPattern(config, PathOf(fs, req[r].uri))
        /\ <<"m", "d">> \in config.ignoredExtensions
        /\ req[r].result = Undefined /\ req[r].stat = NoStat

-----------------------------------------------------------------------------
(* Properties: hidden entries of a traversal (SpecTree)                    *)

\* The name starts with '.' or is node_modules
HiddenName(name) == name[1] = "." \/ name = NodeModules

\* The directories below the traversal's root that node n lies in
Between(top, n) == {a \in Above(fs, n) : top \in Above(fs, a)}

\* A traversal from top that has listed the directories of its frames, awaits
\* entry cur and has sized, opened and counted these files went into no
\* directory with a hidden name
NoHiddenDirectory(top, pc, cur, stack, touched) ==
    /\ \A i \in 2..Len(stack) : ~HiddenName(fs[stack[i].dir].name)
    /\ (pc = "readdir" /\ cur # top) => ~HiddenName(fs[cur].name)
    /\ \A f \in touched : \A a \in Between(top, f) : ~HiddenName(fs[a].name)

\* C21 (amended): directory aggregation and the workspace scan never list a
\* directory entry whose name starts with '.' or is 'node_modules', whatever
\* the ignore patterns are, the empty list included: no file in or below such
\* a directory is stat'ed, read or added to a total.
C21_HiddenDirectoriesSkipped ==
    /\ \A r \in Slots :
        LET q == req[r]
        IN  (q.pc # "idle" /\ q.stat.ok /\ q.stat.isDir) =>
                NoHiddenDirectory(q.uri, q.pc, q.cur, q.stack,
                                  q.sized \cup Range(q.opened) \cup Range(q.counted))
    /\ scan.pc # "idle" =>
            NoHiddenDirectory(Root(fs), scan.pc, scan.cur, scan.stack,
                              scan.sized \cup Range(scan.opened) \cup Range(scan.counted))

\* C21 (as stated): ... never process an entry, file or directory, whose name
\* starts with '.' or is 'node_modules': such an entry contributes nothing to
\* any total.
C21_HiddenEntriesSkipped ==
    /\ C21_HiddenDirectoriesSkipped
    /\ \A r \in Slots :
        (req[r].stat.ok /\ req[r].stat.isDir) =>
            \A f \in Range(req[r].counted) : ~HiddenName(fs[f].name)
    /\ \A f \in Range(scan.counted) : ~HiddenName(fs[f].name)

\* The total of the folder, no pattern ignored, with a node_modules directory
\* whose file is left out
C21_Witness ==
    \E r \in Slots :
        /\ req[r].pc = "done" /\ req[r].uri = Root(fs)
        /\ req[r].result.kind = "decoration" /\ req[r].result.isDir
        /\ config.ignoredPatterns = <<>>
        /\ \E d \in DOMAIN fs :
            /\ fs[d].kind = "dir" /\ fs[d].name = NodeModules
            /\ \E f \in Below(fs, d) : fs[f].kind = "file" /\ fs[f].name = JsTwo.name
            /\ Below(fs, d) \cap Range(req[r].counted) = {}
        /\ req[r].counted # <<>>

-----------------------------------------------------------------------------
(* Properties: carriage returns in countLines (SpecCountLines)             *)

RECURSIVE WithoutCR(_)
\* The content without every CR byte that another byte follows
WithoutCR(content) ==
    IF Len(content) <= 1 THEN content
    ELSE IF Head(content) = CR THEN WithoutCR(Tail(content))
    ELSE <<Head(content)>> \o WithoutCR(Tail(content))

\* C22: carriage-return bytes never change the result of countLines: a
\* completed call returns what countLines returns for the same content with
\* every CR byte that another byte follows removed, so that a CRLF sequence
\* is one line break and a lone CR is none.
C22_CarriageReturnsIgnored ==
    (clPc = "resolved" /\ clFile.exists) =>
        clResult = CountLines(WithoutCR(clFile.content))

\* A completed count of a file with a CRLF sequence and a lone CR
C22_Witness ==
    /\ clPc = "resolved" /\ clFile.exists
    /\ \E i, j \in 1..(Len(clFile.content) - 1) :
        /\ clFile.content[i] = CR /\ clFile.content[i + 1] = LF
        /\ clFile.content[j] = CR /\ clFile.content[j + 1] = "x"
    /\ clResult = 2

-----------------------------------------------------------------------------
(* Properties: formatFileSize (SpecSize)                                   *)

\* n * 1024^e >= 1024^k, for n < 2^31
AtLeastPow(n, e, k) == e >= k \/ (k - e <= 3 /\ n >= Pow1024(k - e))

\* The largest unit of B, KB, MB, GB, TB whose scaled value is >= 1
StatedUnit(n, e) ==
    CHOOSE k \in 0..4 :
        AtLeastPow(n, e, k) /\ \A j \in 0..4 : AtLeastPow(n, e, j) => j <= k

\* The scaled value rounded to one decimal place, a trailing '.0' dropped
StatedValue(n, e) ==
    LET k == StatedUnit(n, e)
    IN  IF k >= e
        THEN FixedString((20 * n + Pow1024(k - e)) \div (2 * Pow1024(k - e)))
        ELSE Digits(n * Pow1024(e - k))

-----------------------------------------------------------------------------
(* Properties: the language of countSloc (SpecSloc)                        *)

\* The number of lines with a character that is no white space
NonBlankLines(content) ==
    LET lines == SplitLines(content)
    IN  Cardinality({k \in 1..Len(lines) : Trim(lines[k]) # <<>>})

\* The permissive default: '//' and '#' start a comment, no block comments
PermissiveDefault ==
    [single |-> << <<"/", "/">>, <<"#">> >>, blockStart |-> None, blockEnd |-> None]

\* C24: countSloc without a language chooses the comment patterns by the
\* lower-cased extension of the file: it returns what countSloc returns for
\* the language mapped to the extension, the number of non-blank lines for a
\* Markdown or JSON file, and what the permissive default ('//' and '#', no
\* block markers) gives for an unknown extension.
C24_LanguageFromExtension ==
    (call.fn = "countSloc" /\ call.pc = "returned") =>
        LET language == LangMap(ToLowerCase(LastDotSegment(call.filePath)))
        IN  /\ language # None =>
                call.out = CountSloc(call.content, call.filePath, language)
            /\ language \in {"markdown", "json"} =>
                call.out = NonBlankLines(call.content)
            /\ language = None =>
                call.out = SlocFrom(SplitLines(call.content), 1, PermissiveDefault, FALSE)

\* A Markdown file with an upper-case extension whose two lines, one of them
\* starting with '#', are both counted
C24_Witness ==
    /\ call.fn = "countSloc" /\ call.pc = "returned"
    /\ call.filePath = <<"a", ".", "M", "D">>
    /\ Len(call.content) = MaxSloc /\ call.content[1] = "#"
    /\ call.out = 2

-----------------------------------------------------------------------------
(* Properties: the block comments of countSloc (SpecSloc)                  *)

\* The places (from 0) at or after from where the marker occurs in the text
Places(text, marker, from) ==
    {i \in from..(Len(text) - Len(marker)) :
        SubSeq(text, i + 1, i + Len(marker)) = marker}

Least(places) == CHOOSE i \in places : \A j \in places : i <= j

\* The text has a character that is no white space
NonBlank(text) == \E i \in 1..Len(text) : ~IsSpace(text[i])

\* The text before place i, and the text after the marker at place i
Before(text, i) == SubSeq(text, 1, i)
After(text, marker, i) == SubSeq(text, i + Len(marker) + 1, Len(text))

\* The block-comment rule for a non-blank line: whether the rule handles the
\* line, whether the line is counted, and the flag after the line
BlockRule(line, pat, open) ==
    LET starts == Places(line, pat.blockStart, 0)
        ends   == Places(line, pat.blockEnd, 0)
        later  == Places(line, pat.blockEnd, Least(starts) + Len(pat.blockStart))
    IN  IF open
        THEN IF ends = {}
             THEN [handled |-> TRUE, counted |-> FALSE, open |-> TRUE]
             ELSE [handled |-> TRUE, open |-> FALSE,
                   counted |-> NonBlank(After(line, pat.blockEnd, Least(ends)))]
        ELSE IF starts = {}
             THEN [handled |-> FALSE, counted |-> FALSE, open |-> FALSE]
             ELSE IF later # {}
             THEN [handled |-> TRUE, open |-> FALSE,
                   counted |-> \/ NonBlank(Before(line, Least(starts)))
                               \/ NonBlank(After(line, pat.blockEnd, Least(later)))]
             ELSE [handled |-> TRUE, open |-> TRUE,
                   counted |-> NonBlank(Before(line, Least(starts)))]

RECURSIVE BlockRuleFrom(_, _, _, _)
\* The count of the lines from the k-th on: the block-comment rule for the
\* lines it handles, the single-line-marker rule for the other ones
BlockRuleFrom(lines, k, pat, open) ==
    IF k > Len(lines) THEN 0
    ELSE LET line == Trim(lines[k])
             rule == BlockRule(line, pat, open)
         IN  IF line = <<>> THEN BlockRuleFrom(lines, k + 1, pat, open)
             ELSE IF rule.handled
             THEN (IF rule.counted THEN 1 ELSE 0)
                    + BlockRuleFrom(lines, k + 1, pat, rule.open)
             ELSE SingleLineAdds(line, pat) + BlockRuleFrom(lines, k + 1, pat, open)

\* C25: countSloc tracks one open/closed block-comment flag across the lines.
\* While it is open, a non-blank line without the end marker is not counted
\* and leaves it open, and a line with the end marker closes it and is
\* counted iff non-blank text follows the marker.  While it is closed, a line
\* with a start marker and a later end marker is counted iff non-blank text
\* precedes the start or follows the end, and leaves it closed; a line with a
\* start marker and no later end marker is counted iff non-blank text
\* precedes the start, and opens it.  None of these lines is passed to the
\* single-line-marker rule.
C25_BlockCommentFlag ==
    (call.fn = "countSloc" /\ call.pc = "returned") =>
        LET pat == Patterns(LangMap(ToLowerCase(LastDotSegment(call.filePath))))
        IN  (pat.blockStart # None /\ pat.blockEnd # None) =>
                call.out = BlockRuleFrom(SplitLines(call.content), 1, pat, FALSE)

\* A JavaScript file of two counted lines: code and the start of a block
\* comment, then the end of the block comment and code
C25_Witness ==
    /\ call.fn = "countSloc" /\ call.pc = "returned"
    /\ call.filePath = <<"a", ".", "j", "s">>
    /\ call.content = <<"x", "/", "*", LF, "*", "/", "x">>
    /\ call.out = 2

-----------------------------------------------------------------------------
(* Properties: the single-line markers of countSloc (SpecSloc)             *)

\* What a non-blank line adds by the single-line-marker rule: the first
\* marker of the table that occurs in the line decides
MarkerRule(line, pat) ==
    LET single == IF pat.single = None THEN <<>> ELSE pat.single
        occur  == {k \in 1..Len(single) : Places(line, single[k], 0) # {}}
    IN  IF occur = {} THEN 1
        ELSE IF Least(Places(line, single[Least(occur)], 0)) = 0 THEN 0 ELSE 1

RECURSIVE MarkerRuleFrom(_, _, _, _)
\* The count of the lines from the k-th on, the single-line-marker rule
\* applied to the lines the block-comment rule does not handle
MarkerRuleFrom(lines, k, pat, open) ==
    IF k > Len(lines) THEN 0
    ELSE LET line  == Trim(lines[k])
             block == pat.blockStart # None /\ pat.blockEnd # None
         IN  IF line = <<>> THEN MarkerRuleFrom(lines, k + 1, pat, open)
             ELSE IF block /\ BlockRule(line, pat, open).handled
             THEN (IF BlockRule(line, pat, open).counted THEN 1 ELSE 0)
                    + MarkerRuleFrom(lines, k + 1, pat, BlockRule(line, pat, open).open)
             ELSE MarkerRule(line, pat) + MarkerRuleFrom(lines, k + 1, pat, open)

\* C26: for a non-blank line that the block-comment rule does not handle,
\* countSloc tests the single-line markers of the language in table order and
\* decides on the first marker that occurs in the trimmed line: the line is
\* skipped when it starts with that marker and counted once when the marker
\* occurs at a position greater than zero; a line in which no marker occurs
\* is counted once.
C26_FirstOccurringMarker ==
    (call.fn = "countSloc" /\ call.pc = "returned") =>
        call.out = MarkerRuleFrom(SplitLines(call.content), 1,
                        Patterns(LangMap(ToLowerCase(LastDotSegment(call.filePath)))),
                        FALSE)

\* A PHP file whose line starts with the second marker of the table and
\* holds the first one further on: the first one decides, the line is counted
C26_Witness ==
    /\ call.fn = "countSloc" /\ call.pc = "returned"
    /\ call.filePath = <<"a", ".", "p", "h", "p">>
    /\ call.content = <<"#", "/", "/", "x">>
    /\ call.out = 1

-----------------------------------------------------------------------------
(* Properties: the caches and the file's modification time (Spec)          *)

\* The content the file had at a modification time: an edit writes new bytes
\* and a later time, so the first time is the one of the first content
ContentAt(n, mtime) ==
    IF mtime = Flat[n].mtime THEN Flat[n].content ELSE CHOOSE c \in EditContents : TRUE

\* C27: provided every change of a file's content changes its mtime, a
\* decoration request served from the count cache returns countLines of the
\* content the file had at the mtime its stat observed, under every
\* interleaving of requests for the file, edits and invalidations.
C27_HitIsCountAtMtime ==
    \A r \in Slots :
        LET q == req[r]
        IN  (q.pc = "done" /\ q.look = "hit" /\ q.result.kind = "decoration") =>
                q.result.count = CountLines(ContentAt(q.uri, q.stat.mtime))

\* C28: the SLOC a file's tooltip shows was computed from the content at the
\* mtime the request's stat observed: when the count cache misses because the
\* mtime changed with no invalidation, the SLOC is recomputed too and not
\* served from the SLOC cache.  (Stated for the requests whose file has not
\* changed since their stat.)
C28_SlocOfStatMtime ==
    \A r \in Slots :
        LET q == req[r]
        IN  (q.pc = "done" /\ q.result.kind = "decoration" /\ q.result.sloc # -1
                /\ q.stat.mtime = fs[q.uri].mtime) =>
                q.result.sloc = CountSloc(FileText(fs[q.uri]), PathOf(fs, q.uri), None)

-----------------------------------------------------------------------------
(* Properties: the bounds of countSloc (SpecSloc)                          *)

\* C29: for every file content and every language countSloc adds at most one
\* per line and nothing for a blank line: 0 <= countSloc <= the number of
\* non-blank lines <= countLines of the same content.
C29_SlocBounds ==
    (call.fn = "countSloc" /\ call.pc = "returned") =>
        /\ 0 <= call.out
        /\ call.out <= NonBlankLines(call.content)
        /\ NonBlankLines(call.content) <= CountLines(call.content)

\* A file of three lines, the last one empty, one of the other two a comment
C29_Witness ==
    /\ call.fn = "countSloc" /\ call.pc = "returned"
    /\ call.out = 1
    /\ NonBlankLines(call.content) = 2
    /\ CountLines(call.content) = 3

-----------------------------------------------------------------------------
(* Properties: the breakdown of the workspace statistics (SpecTree)        *)

RECURSIVE SumFilesOf(_, _)
\* The file counts of these buckets of the breakdown, added up
SumFilesOf(stats, exts) ==
    IF exts = {} THEN 0
    ELSE LET e == CHOOSE x \in exts : TRUE
         IN  stats[e].files + SumFilesOf(stats, exts \ {e})

RECURSIVE SumLinesOf(_, _)
\* The line counts of these buckets of the breakdown, added up
SumLinesOf(stats, exts) ==
    IF exts = {} THEN 0
    ELSE LET e == CHOOSE x \in exts : TRUE
         IN  stats[e].lines + SumLinesOf(stats, exts \ {e})

\* The bucket of a file: its lower-cased extension, 'unknown' without one
BucketOf(tree, f) ==
    LET popped == ToLowerCase(LastDotSegment(PathOf(tree, f)))
    IN  IF popped = <<>> THEN Unknown ELSE popped

RECURSIVE LinesOfFiles(_, _)
LinesOfFiles(tree, files) ==
    IF files = {} THEN 0
    ELSE LET f == CHOOSE x \in files : TRUE
         IN  FileCountLines(tree[f]) + LinesOfFiles(tree, files \ {f})

\* C30: at every point of a workspace scan the per-extension breakdown adds up
\* to the totals: the file counts of the buckets add up to totalFiles and
\* their line counts to totalLines, and each scanned file is in exactly one
\* bucket exactly once.
C30_BreakdownAddsUp ==
    LET stats == scan.languageStats
        added == Range(scan.counted)
    IN  /\ SumFilesOf(stats, DOMAIN stats) = scan.totalFiles
        /\ SumLinesOf(stats, DOMAIN stats) = scan.totalLines
        /\ scan.totalFiles = Len(scan.counted)
        /\ Cardinality(added) = Len(scan.counted)
        /\ DOMAIN stats = {BucketOf(fs, f) : f \in added}
        /\ \A e \in DOMAIN stats :
            LET files == {f \in added : BucketOf(fs, f) = e}
            IN  /\ stats[e].files = Cardinality(files)
                /\ stats[e].lines = LinesOfFiles(fs, files)

\* A finished scan of three files or more in two buckets or more, one of
\* them with two files
C30_Witness ==
    /\ scan.pc = "done" /\ scan.result = "shown"
    /\ scan.totalFiles >= 3
    /\ Cardinality(DOMAIN scan.languageStats) >= 2
    /\ \E e \in DOMAIN scan.languageStats : scan.languageStats[e].files >= 2

=============================================================================
